---- MODULE Spec2Model ----
(***************************************************************************)
(* A model of the Moon solver of mblode/moon: the basic solver of          *)
(* lib/astro.ts, the extended solver (second half of                       *)
(* components/moon-scene.tsx), the phase classification both of them       *)
(* carry, and the protective boundary App.tsx puts around the solver.      *)
(* Further specifications model the component tree that renders a          *)
(* solution (SpecUi), the reverse geocoding of getLocationName (SpecGeo),  *)
(* a call one synodic month later (SpecPeriod), normalizeHours on doubles  *)
(* (SpecHours), the parallactic angle (SpecAngle) and the vector helpers   *)
(* of the extended solver (SpecVec).                                       *)
(*                                                                         *)
(* Units.  Instants are whole minutes counted from the reference new moon  *)
(* 2000-01-06T18:14:00Z (the resolution of the datetime-local field).      *)
(* Angles are whole degrees.  sin and cos are scaled by TrigScale.         *)
(* An illumination fraction is the double nearest k/1000, named by k.      *)
(***************************************************************************)
EXTENDS Integers, Sequences, FiniteSets, TLC

VARIABLES now, last, prev, label, ui, calc, loc

vars == <<now, last, prev, label, ui, calc, loc>>

(***************************************************************************)
(* Bounds of the model.                                                    *)
(***************************************************************************)
\* the dates handed to the solver are n * DateStep \div 2, |n| <= MaxDateSteps
MaxDateSteps == 8
\* the wall clock advances at most MaxTicks times
MaxTicks == 2

(***************************************************************************)
(* Units of the model.                                                     *)
(***************************************************************************)
\* sin and cos are stored multiplied by TrigScale
TrigScale == 10000
\* illumination fractions are stored multiplied by FracScale
FracScale == 1000

(***************************************************************************)
(* Program constants.                                                      *)
(***************************************************************************)
\* synodicMonth = 29.530588853 days, in minutes (42524.05)
SynodicMonthMin == 42524
\* illumFraction < 0.01
NewMoonBelow == 10
\* illumFraction > 0.99
FullMoonAbove == 990
\* Math.abs(illumFraction - 0.5) < 0.05
QuarterHalfWidth == 50
\* illumFraction < 0.5, and the 0.5 of illumFraction - 0.5
HalfLit == 500
\* Math.random() < 0.02, in percent
LogBelowPercent == 2
\* the fallback solution of App.tsx: illumFraction 0.5, phaseAngleDeg 90
FallbackIllum == 500
FallbackPhaseAngle == 90

(***************************************************************************)
(* JavaScript arithmetic.                                                  *)
(***************************************************************************)
Abs(x) == IF x < 0 THEN -x ELSE x

\* a % b of JavaScript for b > 0: the result has the sign of a
JsRem(a, b) == IF a >= 0 THEN a % b ELSE -((-a) % b)

\* ((a % b) + b) % b, the idiom the solvers use to normalise
NormalizeMod(a, b) == JsRem(JsRem(a, b) + b, b)

\* sin of 0..90 degrees, times TrigScale, rounded
SinTable ==
    << 0, 175, 349, 523, 698, 872, 1045, 1219, 1392, 1564, 1736, 1908,
       2079, 2250, 2419, 2588, 2756, 2924, 3090, 3256, 3420, 3584, 3746, 3907,
       4067, 4226, 4384, 4540, 4695, 4848, 5000, 5150, 5299, 5446, 5592, 5736,
       5878, 6018, 6157, 6293, 6428, 6561, 6691, 6820, 6947, 7071, 7193, 7314,
       7431, 7547, 7660, 7771, 7880, 7986, 8090, 8192, 8290, 8387, 8480, 8572,
       8660, 8746, 8829, 8910, 8988, 9063, 9135, 9205, 9272, 9336, 9397, 9455,
       9511, 9563, 9613, 9659, 9703, 9744, 9781, 9816, 9848, 9877, 9903, 9925,
       9945, 9962, 9976, 9986, 9994, 9998, 10000 >>

SinDeg(d) ==
    LET a == NormalizeMod(d, 360)
    IN  IF a <= 90 THEN SinTable[a + 1]
        ELSE IF a <= 180 THEN SinTable[180 - a + 1]
        ELSE IF a <= 270 THEN -SinTable[a - 180 + 1]
        ELSE -SinTable[360 - a + 1]

CosDeg(d) == SinDeg(d + 90)

(***************************************************************************)
(* IEEE-754.  With the unit u = 2^-62 / 125 every double d(k) nearest      *)
(* k/1000 is a whole number of units.  For k in 0..1000 the entry k+1 of   *)
(* SubHalfResidue is                                                       *)
(*     ( fl(d(k) - 0.5) - (k - 500)/1000 ) / u                             *)
(* where fl is the rounded subtraction of doubles, and QuarterResidue is   *)
(* ( d(50) - 50/1000 ) / u for the literal 0.05.  So fl(d(k) - 0.5) is the *)
(* pair (k - 500, residue) and pairs compare lexicographically, every      *)
(* residue being far below the 2^59 units of 1/1000.                       *)
(***************************************************************************)
QuarterResidue == 1600

SubHalfResidue ==
    << 0, 512, 1024, 1536, 2048, 2560, 3072, 3584, 4096, 4608, 5120, 5632,
       6144, 6656, 7168, 7680, 8192, 8704, 9216, 9728, 10240, 10752, 11264, 11776,
       12288, 12800, 13312, 13824, 14336, 14848, 15360, 15872, 16384, 16896, 17408, 17920,
       -13568, -13056, -12544, -12032, -11520, -11008, -10496, -9984, -9472, -8960, -8448, -7936,
       -7424, -6912, -6400, -5888, -5376, -4864, -4352, -3840, -3328, -2816, -2304, -1792,
       -1280, -768, -256, 256, 768, 1280, 1792, 2304, 2816, 3328, 3840, 4352,
       4864, 5376, 5888, 6400, 6912, 7424, 7936, 8448, 8960, 9472, 9984, 10496,
       11008, 11520, -19968, -19456, -18944, -18432, -17920, -17408, -16896, -16384, -15872, -15360,
       -14848, -14336, -13824, -13312, -12800, -12288, -11776, -11264, -10752, -10240, -9728, -9216,
       -8704, -8192, -7680, -7168, -6656, -6144, -5632, -5120, -4608, -4096, -3584, -3072,
       -2560, -2048, -1536, -1024, -512, 0, 512, 1024, 1536, 2048, 2560, 3072,
       3584, 4096, 4608, 5120, 5632, 6144, 6656, 7168, 7680, 8192, 8704, 9216,
       9728, 10240, 10752, 11264, 11776, 12288, 12800, 13312, 13824, 14336, 14848, 15360,
       15872, 16384, 16896, 17408, 17920, 18432, 18944, 19456, 19968, 20480, 20992, 21504,
       22016, 22528, 23040, 23552, -7936, -7424, -6912, -6400, -5888, -5376, -4864, -4352,
       -3840, -3328, -2816, -2304, -1792, -1280, -768, -256, 256, 768, 1280, 1792,
       2304, 2816, 3328, 3840, 4352, 4864, 5376, 5888, 6400, 6912, 7424, 7936,
       -23552, -23040, -22528, -22016, -21504, -20992, -20480, -19968, -19456, -18944, -18432, -17920,
       -17408, -16896, -16384, -15872, -15360, -14848, -14336, -13824, -13312, -12800, -12288, -11776,
       -11264, -10752, -10240, -9728, -9216, -8704, -8192, -7680, -7168, -6656, -6144, -5632,
       -5120, -4608, -4096, -3584, -3072, -2560, -2048, -1536, -1024, -512, 0, 512,
       1024, 1536, 2048, 2560, 3072, 3584, 4096, 4608, 5120, 5632, 6144, 6656,
       7168, 7680, 8192, 8704, 9216, 9728, 10240, 10752, 11264, 11776, 12288, 12800,
       13312, 13824, 14336, 14848, 15360, 15872, -15616, -15104, -14592, -14080, -13568, -13056,
       -12544, -12032, -11520, -11008, -10496, -9984, -9472, -8960, -8448, -7936, -7424, -6912,
       -6400, -5888, -5376, -4864, -4352, -3840, -3328, -2816, -2304, -1792, -1280, -768,
       -256, 256, 768, 1280, 1792, 2304, 2816, 3328, 3840, 4352, 4864, 5376,
       5888, 6400, 6912, 7424, 7936, 8448, 8960, 9472, 9984, 10496, 11008, 11520,
       12032, 12544, 13056, 13568, 14080, 14592, 15104, 15616, -15872, -15360, -14848, -14336,
       -13824, -13312, -12800, -12288, -11776, -11264, -10752, -10240, -9728, -9216, -8704, -8192,
       -7680, -7168, -6656, -6144, -5632, -5120, -4608, -4096, -3584, -3072, -2560, -2048,
       -1536, -1024, -512, 0, 512, 1024, 1536, 2048, 2560, 3072, 3584, 4096,
       4608, 5120, 5632, 6144, 6656, 7168, 7680, 8192, 8704, 9216, 9728, 10240,
       10752, 11264, 11776, 12288, 12800, 13312, 13824, 14336, 14848, 15360, 15872, -15616,
       -15104, -14592, -14080, -13568, -13056, -12544, -12032, -11520, -11008, -10496, -9984, -9472,
       -8960, -8448, -7936, -7424, -6912, -6400, -5888, -5376, -4864, -4352, -3840, -3328,
       -2816, -2304, -1792, -1280, -768, -256, 256, 768, 1280, 1792, 2304, 2816,
       3328, 3840, 4352, 4864, 5376, 5888, 6400, 6912, 7424, 7936, 8448, 8960,
       9472, 9984, 10496, 11008, 11520, 12032, 12544, 13056, 13568, 14080, 14592, 15104,
       15616, -15872, -15360, -14848, -14336, -13824, -13312, -12800, -12288, -11776, -11264, -10752,
       -10240, -9728, -9216, -8704, -8192, -7680, -7168, -6656, -6144, -5632, -5120, -4608,
       -4096, -3584, -3072, -2560, -2048, -1536, -1024, -512, 0, 512, 1024, 1536,
       2048, 2560, 3072, 3584, 4096, 4608, 5120, 5632, 6144, 6656, 7168, 7680,
       8192, 8704, 9216, 9728, 10240, 10752, 11264, 11776, 12288, 12800, 13312, 13824,
       14336, 14848, 15360, 15872, 16384, 16896, 17408, 17920, 18432, 18944, 19456, 19968,
       20480, 20992, 21504, 22016, 22528, 23040, 23552, 24064, 24576, 25088, 25600, 26112,
       26624, 27136, 27648, 28160, 28672, 29184, 29696, 30208, 30720, 31232, 31744, -31744,
       -31232, -30720, -30208, -29696, -29184, -28672, -28160, -27648, -27136, -26624, -26112, -25600,
       -25088, -24576, -24064, -23552, -23040, -22528, -22016, -21504, -20992, -20480, -19968, -19456,
       -18944, -18432, -17920, -17408, -16896, -16384, -15872, -15360, -14848, -14336, -13824, -13312,
       -12800, -12288, -11776, -11264, -10752, -10240, -9728, -9216, -8704, -8192, -7680, -7168,
       -6656, -6144, -5632, -5120, -4608, -4096, -3584, -3072, -2560, -2048, -1536, -1024,
       -512, 0, 512, 1024, 1536, 2048, 2560, 3072, 3584, 4096, 4608, 5120,
       5632, 6144, 6656, 7168, 7680, 8192, 8704, 9216, 9728, 10240, 10752, 11264,
       11776, 12288, 12800, 13312, 13824, 14336, 14848, 15360, 15872, 16384, 16896, 17408,
       17920, 18432, 18944, 19456, 19968, 20480, 20992, 21504, 22016, 22528, 23040, 23552,
       24064, 24576, 25088, 25600, 26112, 26624, 27136, 27648, 28160, 28672, 29184, 29696,
       30208, 30720, 31232, 31744, -31744, -31232, -30720, -30208, -29696, -29184, -28672, -28160,
       -27648, -27136, -26624, -26112, -25600, -25088, -24576, -24064, -23552, -23040, -22528, -22016,
       -21504, -20992, -20480, -19968, -19456, -18944, -18432, -17920, -17408, -16896, -16384, -15872,
       -15360, -14848, -14336, -13824, -13312, -12800, -12288, -11776, -11264, -10752, -10240, -9728,
       -9216, -8704, -8192, -7680, -7168, -6656, -6144, -5632, -5120, -4608, -4096, -3584,
       -3072, -2560, -2048, -1536, -1024, -512, 0, 512, 1024, 1536, 2048, 2560,
       3072, 3584, 4096, 4608, 5120, 5632, 6144, 6656, 7168, 7680, 8192, 8704,
       9216, 9728, 10240, 10752, 11264, 11776, 12288, 12800, 13312, 13824, 14336, 14848,
       15360, 15872, 16384, 16896, 17408, 17920, 18432, 18944, 19456, 19968, 20480, 20992,
       21504, 22016, 22528, 23040, 23552, 24064, 24576, 25088, 25600, 26112, 26624, 27136,
       27648, 28160, 28672, 29184, 29696, 30208, 30720, 31232, 31744, -31744, -31232, -30720,
       -30208, -29696, -29184, -28672, -28160, -27648, -27136, -26624, -26112, -25600, -25088, -24576,
       -24064, -23552, -23040, -22528, -22016, -21504, -20992, -20480, -19968, -19456, -18944, -18432,
       -17920, -17408, -16896, -16384, -15872, -15360, -14848, -14336, -13824, -13312, -12800, -12288,
       -11776, -11264, -10752, -10240, -9728, -9216, -8704, -8192, -7680, -7168, -6656, -6144,
       -5632, -5120, -4608, -4096, -3584, -3072, -2560, -2048, -1536, -1024, -512, 0,
       512, 1024, 1536, 2048, 2560, 3072, 3584, 4096, 4608, 5120, 5632, 6144,
       6656, 7168, 7680, 8192, 8704, 9216, 9728, 10240, 10752, 11264, 11776, 12288,
       12800, 13312, 13824, 14336, 14848, 15360, 15872, 16384, 16896, 17408, 17920, 18432,
       18944, 19456, 19968, 20480, 20992, 21504, 22016, 22528, 23040, 23552, 24064, 24576,
       25088, 25600, 26112, 26624, 27136, 27648, 28160, 28672, 29184, 29696, 30208, 30720,
       31232, 31744, -31744, -31232, -30720, -30208, -29696, -29184, -28672, -28160, -27648, -27136,
       -26624, -26112, -25600, -25088, -24576, -24064, -23552, -23040, -22528, -22016, -21504, -20992,
       -20480, -19968, -19456, -18944, -18432, -17920, -17408, -16896, -16384, -15872, -15360, -14848,
       -14336, -13824, -13312, -12800, -12288, -11776, -11264, -10752, -10240, -9728, -9216, -8704,
       -8192, -7680, -7168, -6656, -6144, -5632, -5120, -4608, -4096, -3584, -3072, -2560,
       -2048, -1536, -1024, -512, 0 >>

\* fl(illumFraction - 0.5) as <<thousandths, residue>>
SubHalf(k) == <<k - HalfLit, SubHalfResidue[k + 1]>>

\* Math.abs of a pair
AbsPair(p) == IF p[1] < 0 \/ (p[1] = 0 /\ p[2] < 0) THEN <<-p[1], -p[2]>> ELSE p

\* p < q on pairs
LessPair(p, q) == p[1] < q[1] \/ (p[1] = q[1] /\ p[2] < q[2])

(***************************************************************************)
(* The ephemeris provider (astronomy-engine), a fixed function of the      *)
(* instant.  The elongation of the Moon from the Sun is the mean           *)
(* elongation, which is 0 at the reference new moon, plus an equation of   *)
(* centre that follows the anomalistic month; the phase angle and the      *)
(* illuminated fraction follow from it.                                    *)
(***************************************************************************)
\* the anomalistic month, 27.55455 days, in minutes
AnomalisticMonthMin == 39679
\* amplitude of the equation of centre, degrees
EquationAmplitude == 6

MeanElongation(t) == ((t % SynodicMonthMin) * 360) \div SynodicMonthMin

Anomaly(t) == ((t % AnomalisticMonthMin) * 360) \div AnomalisticMonthMin

\* geocentric ecliptic longitude of the Moon minus that of the Sun, in [0,360)
Elongation(t) ==
    (MeanElongation(t) + (EquationAmplitude * SinDeg(Anomaly(t))) \div TrigScale) % 360

\* Illumination(Body.Moon, time): phase_angle in [0,180], 0 = full, 180 = new;
\* phase_fraction = (1 + cos(phase_angle)) / 2
Illumination(t) ==
    LET pa == Abs(180 - Elongation(t))
    IN  [phase_angle    |-> pa,
         phase_fraction |-> ((TrigScale + CosDeg(pa)) * FracScale + TrigScale)
                                \div (2 * TrigScale)]

\* geocentric ecliptic longitude of the Sun: 285 degrees at the reference
\* instant, 360 degrees in a year of 525949 minutes
SunLongitude(t) == (285 + (t * 360) \div 525949) % 360

\* new Observer(lat, lon, elev) throws for a latitude outside [-90, 90]
ObserverThrows(lat, lon, elev) == lat < -90 \/ lat > 90

\* MakeTime(date) throws unless date is a Date with a finite getTime()
MakeTimeThrows(date) == date.kind # "valid"

\* EclipticLongitude(body, time) is the heliocentric longitude of the body,
\* and throws for the Sun itself
EclipticLongitudeThrows(body) == body = "Sun"

EclipticLongitude(body, t) ==
    \* the Moon is seen from the Sun where the Earth is: opposite the Sun
    (SunLongitude(t) + 180) % 360

(***************************************************************************)
(* Inputs.                                                                 *)
(***************************************************************************)
\* an eighth of the synodic month apart, so that n = 4 is exactly half of it
Instant(n) == (n * (SynodicMonthMin \div 4)) \div 2

ValidDates == { [kind |-> "valid", t |-> Instant(n)] : n \in -MaxDateSteps..MaxDateSteps }

\* new Date("x"), whose getTime() is NaN, and a missing date
InvalidDate == [kind |-> "invalid", t |-> 0]
MissingDate == [kind |-> "missing", t |-> 0]

Dates == ValidDates \cup {InvalidDate, MissingDate}

\* whole degrees; 91 and -91 are finite numbers outside [-90, 90]
Lats == {-91, -38, 0, 38, 91}
\* whole degrees; 200 is outside [-180, 180]
Lons == {145, 200}

Inputs == [date : Dates, lat : Lats, lon : Lons]

\* the latitudes an Observer can be made for: the classification is reached
ObservableLats == {lat \in Lats : lat >= -90 /\ lat <= 90}

\* what Math.random() returns, in percent
RandomDraws == {1, 50}

Fractions == 0..FracScale

(***************************************************************************)
(* The phase classification.                                               *)
(***************************************************************************)
PhaseEmojis ==
    {"U1F311", "U1F312", "U1F313", "U1F314", "U1F315", "U1F316", "U1F317", "U1F318"}

PhaseNames ==
    {"New Moon", "Waxing Crescent", "First Quarter", "Waxing Gibbous",
     "Full Moon", "Waning Gibbous", "Last Quarter", "Waning Crescent"}

\* Math.abs(illumFraction - 0.5) < 0.05
InQuarterBand(f) ==
    LessPair(AbsPair(SubHalf(f)), <<QuarterHalfWidth, QuarterResidue>>)

\* PhaseBasic with the first threshold inclusive
PhaseBasicInclusive(f, isWaxing) ==
    IF f <= NewMoonBelow THEN [name |-> "New Moon", emoji |-> "U1F311"]
    ELSE IF f > FullMoonAbove THEN [name |-> "Full Moon", emoji |-> "U1F315"]
    ELSE IF InQuarterBand(f) THEN
        IF isWaxing THEN [name |-> "First Quarter", emoji |-> "U1F313"]
                    ELSE [name |-> "Last Quarter", emoji |-> "U1F317"]
    ELSE IF f < HalfLit THEN
        IF isWaxing THEN [name |-> "Waxing Crescent", emoji |-> "U1F312"]
                    ELSE [name |-> "Waning Crescent", emoji |-> "U1F318"]
    ELSE
        IF isWaxing THEN [name |-> "Waxing Gibbous", emoji |-> "U1F314"]
                    ELSE [name |-> "Waning Gibbous", emoji |-> "U1F316"]

\* lib/astro.ts, the basic solver
PhaseBasic(f, isWaxing) ==
    IF f < NewMoonBelow THEN [name |-> "New Moon", emoji |-> "U1F311"]
    ELSE IF f > FullMoonAbove THEN [name |-> "Full Moon", emoji |-> "U1F315"]
    ELSE IF InQuarterBand(f) THEN
        IF isWaxing THEN [name |-> "First Quarter", emoji |-> "U1F313"]
                    ELSE [name |-> "Last Quarter", emoji |-> "U1F317"]
    ELSE IF f < HalfLit THEN
        IF isWaxing THEN [name |-> "Waxing Crescent", emoji |-> "U1F312"]
                    ELSE [name |-> "Waning Crescent", emoji |-> "U1F318"]
    ELSE
        IF isWaxing THEN [name |-> "Waxing Gibbous", emoji |-> "U1F314"]
                    ELSE [name |-> "Waning Gibbous", emoji |-> "U1F316"]

\* PhaseExtended without its last branch: the initial "Unknown" and "" stay
PhaseExtendedNoElse(f, isWaxing, lat) ==
    LET isSouthernHemisphere == lat < 0
    IN  IF f < NewMoonBelow THEN [name |-> "New Moon", emoji |-> "U1F311"]
        ELSE IF f > FullMoonAbove THEN [name |-> "Full Moon", emoji |-> "U1F315"]
        ELSE IF InQuarterBand(f) THEN
            [name  |-> IF isWaxing THEN "First Quarter" ELSE "Last Quarter",
             emoji |-> IF isSouthernHemisphere
                       THEN (IF isWaxing THEN "U1F317" ELSE "U1F313")
                       ELSE (IF isWaxing THEN "U1F313" ELSE "U1F317")]
        ELSE IF f < HalfLit THEN
            [name  |-> IF isWaxing THEN "Waxing Crescent" ELSE "Waning Crescent",
             emoji |-> IF isSouthernHemisphere
                       THEN (IF isWaxing THEN "U1F318" ELSE "U1F312")
                       ELSE (IF isWaxing THEN "U1F312" ELSE "U1F318")]
        ELSE [name |-> "Unknown", emoji |-> ""]

\* the extended solver: the emoji is swapped for a southern observer
PhaseExtended(f, isWaxing, lat) ==
    LET isSouthernHemisphere == lat < 0
    IN  IF f < NewMoonBelow THEN [name |-> "New Moon", emoji |-> "U1F311"]
        ELSE IF f > FullMoonAbove THEN [name |-> "Full Moon", emoji |-> "U1F315"]
        ELSE IF InQuarterBand(f) THEN
            [name  |-> IF isWaxing THEN "First Quarter" ELSE "Last Quarter",
             emoji |-> IF isSouthernHemisphere
                       THEN (IF isWaxing THEN "U1F317" ELSE "U1F313")
                       ELSE (IF isWaxing THEN "U1F313" ELSE "U1F317")]
        ELSE IF f < HalfLit THEN
            [name  |-> IF isWaxing THEN "Waxing Crescent" ELSE "Waning Crescent",
             emoji |-> IF isSouthernHemisphere
                       THEN (IF isWaxing THEN "U1F318" ELSE "U1F312")
                       ELSE (IF isWaxing THEN "U1F312" ELSE "U1F318")]
        ELSE
            [name  |-> IF isWaxing THEN "Waxing Gibbous" ELSE "Waning Gibbous",
             emoji |-> IF isSouthernHemisphere
                       THEN (IF isWaxing THEN "U1F316" ELSE "U1F314")
                       ELSE (IF isWaxing THEN "U1F314" ELSE "U1F316")]

(***************************************************************************)
(* The solvers.  A result is [threw, fallback, sol, trace]: sol is the     *)
(* MoonSolution returned, trace the values the solver computed on the way  *)
(* (the instant it queried the provider for, the angle theta behind        *)
(* sunDir, and isWaxing).                                                  *)
(***************************************************************************)
NoSolution == [none |-> TRUE]
NoTrace == [none |-> TRUE]
Thrown == [threw |-> TRUE, fallback |-> FALSE, sol |-> NoSolution, trace |-> NoTrace]

\* sunDir of the basic solver: [sin(moonAgeRad), 0, cos(moonAgeRad)]
SunDirBasic(theta) == <<SinDeg(theta), 0, CosDeg(theta)>>

\* sunDir with cos written for both components
SunDirExtendedCosCos(theta) == <<CosDeg(theta), 0, CosDeg(theta)>>

\* sunDir of the extended solver: [cos(elongationRad), 0, sin(elongationRad)]
SunDirExtended(theta) == <<CosDeg(theta), 0, SinDeg(theta)>>

\* the phase angle turned into a Moon age of 360 - phase_angle
IllumOutBasicMoonAge(illum) ==
    [illumFraction |-> illum.phase_fraction,
     phaseAngleDeg |-> 360 - illum.phase_angle]

\* illumFraction and phaseAngleDeg of the basic solver: illum.phase_fraction
\* and illum.phase_angle as they come
IllumOutBasic(illum) ==
    [illumFraction |-> illum.phase_fraction, phaseAngleDeg |-> illum.phase_angle]

\* the same two lines of the extended solver
IllumOutExtended(illum) ==
    [illumFraction |-> illum.phase_fraction, phaseAngleDeg |-> illum.phase_angle]

\* the date replaced by new Date() whatever it is
SanitizeDateAlwaysNow(date, clock) == clock

\* the extended solver's date: new Date() when the date is missing or its
\* getTime() is NaN
SanitizeDate(date, clock) == IF date.kind # "valid" THEN clock ELSE date.t

\* the extended solver evaluates new Date() exactly when it replaces the date
ReadsClock(date) == date.kind # "valid"

\* isWaxing of the basic solver
IsWaxingBasic(phaseAngleDeg) == phaseAngleDeg <= 180

\* cyclePosition: minutes into the mean synodic month
CyclePosition(validDate) == NormalizeMod(validDate, SynodicMonthMin)

\* isWaxing left at its initial value: a catch block that does nothing
IsWaxingExtendedDefault(validDate) == TRUE

\* isWaxing of the extended solver: the try block, and its catch
IsWaxingExtended(validDate) ==
    IF EclipticLongitudeThrows("Moon") \/ EclipticLongitudeThrows("Sun")
    THEN CyclePosition(validDate) * 2 <= SynodicMonthMin
    ELSE LET elongationDeg ==
                 NormalizeMod(EclipticLongitude("Moon", validDate)
                                - EclipticLongitude("Sun", validDate), 360)
         IN  elongationDeg * 2 <= 360

\* the angle of sunDir taken from the elongation the provider gives
ElongationDegExtendedTrue(validDate) == Elongation(validDate)

\* the angle of sunDir in the extended solver
ElongationDegExtended(validDate) ==
    NormalizeMod((CyclePosition(validDate) * 360) \div SynodicMonthMin, 360)

solveMoonBasic(i) ==
    IF ObserverThrows(i.lat, i.lon, 0) \/ MakeTimeThrows(i.date) THEN Thrown
    ELSE
        LET time          == i.date.t
            illum         == Illumination(time)
            illumFraction == IllumOutBasic(illum).illumFraction
            phaseAngleDeg == IllumOutBasic(illum).phaseAngleDeg
            isWaxing      == IsWaxingBasic(phaseAngleDeg)
            phase         == PhaseBasic(illumFraction, isWaxing)
        IN  [threw    |-> FALSE,
             fallback |-> FALSE,
             sol      |-> [sunDir        |-> SunDirBasic(phaseAngleDeg),
                           illumFraction |-> illumFraction,
                           phaseAngleDeg |-> phaseAngleDeg,
                           phaseName     |-> phase.name,
                           phaseEmoji    |-> phase.emoji],
             trace    |-> [time |-> time, theta |-> phaseAngleDeg,
                           isWaxing |-> isWaxing]]

solveMoonExtended(i, clock) ==
    IF ObserverThrows(i.lat, i.lon, 0) THEN Thrown
    ELSE
        LET validDate     == SanitizeDate(i.date, clock)
            time          == validDate
            illum         == Illumination(time)
            illumFraction == IllumOutExtended(illum).illumFraction
            phaseAngleDeg == IllumOutExtended(illum).phaseAngleDeg
            isWaxing      == IsWaxingExtended(validDate)
            elongationDeg == ElongationDegExtended(validDate)
            phase         == PhaseExtended(illumFraction, isWaxing, i.lat)
        IN  [threw    |-> FALSE,
             fallback |-> FALSE,
             sol      |-> [sunDir        |-> SunDirExtended(elongationDeg),
                           illumFraction |-> illumFraction,
                           phaseAngleDeg |-> phaseAngleDeg,
                           phaseName     |-> phase.name,
                           phaseEmoji    |-> phase.emoji],
             trace    |-> [time |-> time, theta |-> elongationDeg,
                           isWaxing |-> isWaxing]]

\* the fallback solution of App.tsx
FallbackSolution ==
    [sunDir        |-> <<TrigScale, 0, 0>>,
     illumFraction |-> FallbackIllum,
     phaseAngleDeg |-> FallbackPhaseAngle,
     phaseName     |-> "Unknown",
     phaseEmoji    |-> "U1F315"]

\* App.tsx: sol = useMemo(() => { try { solveMoon(inputs) } catch { fallback } })
AppSolve(i) ==
    LET r == solveMoonBasic(i)
    IN  IF r.threw
        THEN [threw |-> FALSE, fallback |-> TRUE, sol |-> FallbackSolution,
              trace |-> NoTrace]
        ELSE r

(***************************************************************************)
(* The state machine.  last is the latest call of a solver, prev the call  *)
(* before it when that was a call with the same inputs, label the latest   *)
(* classification of a fraction on its own, ui the state of the mounted    *)
(* App and scene component, calc the evaluation of one helper function.    *)
(***************************************************************************)
NoCall == [impl |-> "none"]
NoLabel == [none |-> TRUE]
\* no component is mounted; no helper function is being evaluated
NoUi == [none |-> TRUE]
NoCalc == [none |-> TRUE]
NoLoc == [none |-> TRUE]
Unclassified == [name |-> "", emoji |-> ""]

Invoke(impl, i, clock, rnd) ==
    [impl   |-> impl,
     in     |-> i,
     at     |-> clock,
     rnd    |-> rnd,
     logged |-> IF impl = "extended"
                THEN ~ObserverThrows(i.lat, i.lon, 0) /\ rnd < LogBelowPercent
                ELSE FALSE,
     drewRandom |-> impl = "extended" /\ ~ObserverThrows(i.lat, i.lon, 0),
     readClock  |-> impl = "extended" /\ ~ObserverThrows(i.lat, i.lon, 0)
                      /\ ReadsClock(i.date),
     res    |-> CASE impl = "basic"    -> solveMoonBasic(i)
                  [] impl = "extended" -> solveMoonExtended(i, clock)
                  [] impl = "app"      -> AppSolve(i)]

Init ==
    /\ now = Instant(0)
    /\ last = NoCall
    /\ prev = NoCall
    /\ label = NoLabel
    /\ loc = NoLoc
    /\ ui = NoUi
    /\ calc = NoCalc

\* the wall clock advances by an eighth of a synodic month
Tick ==
    /\ \E n \in 0..(MaxTicks - 1) : now = Instant(n) /\ now' = Instant(n + 1)
    /\ UNCHANGED <<last, prev, label, ui, calc, loc>>

CallBasic(i) ==
    /\ last = NoCall
    /\ last' = Invoke("basic", i, now, 0)
    /\ UNCHANGED <<now, prev, label, ui, calc, loc>>

CallExtended(i, rnd) ==
    /\ last = NoCall
    /\ last' = Invoke("extended", i, now, rnd)
    /\ UNCHANGED <<now, prev, label, ui, calc, loc>>

CallApp(i) ==
    /\ last = NoCall
    /\ last' = Invoke("app", i, now, 0)
    /\ UNCHANGED <<now, prev, label, ui, calc, loc>>

\* the caller drops the solution; the next call starts afresh
Discard ==
    /\ last # NoCall
    /\ last' = NoCall
    /\ prev' = NoCall
    /\ UNCHANGED <<now, label, ui, calc, loc>>

\* the same solver is called again with the same inputs
CallAgain(rnd) ==
    /\ last # NoCall
    /\ prev' = last
    /\ last' = Invoke(last.impl, last.in, now, rnd)
    /\ UNCHANGED <<now, label, ui, calc, loc>>

Next ==
    \/ Tick
    \/ \E i \in Inputs : CallBasic(i)
    \/ \E i \in Inputs, rnd \in RandomDraws : CallExtended(i, rnd)
    \/ \E i \in Inputs : CallApp(i)
    \/ Discard

Spec == Init /\ [][Next]_vars

NextRepeat ==
    \/ Next
    \/ \E rnd \in RandomDraws : CallAgain(rnd)

SpecRepeat == Init /\ [][NextRepeat]_vars

\* the same solver is called with the date one synodic month later
CallNextMonth(rnd) ==
    /\ last # NoCall
    /\ prev = NoCall
    /\ last.in.date.kind = "valid"
    /\ prev' = last
    /\ last' = Invoke(last.impl,
                      [last.in EXCEPT !.date.t = @ + SynodicMonthMin], now, rnd)
    /\ UNCHANGED <<now, label, ui, calc, loc>>

NextPeriod ==
    \/ Next
    \/ \E rnd \in RandomDraws : CallNextMonth(rnd)

SpecPeriod == Init /\ [][NextPeriod]_vars

\* the classification on its own: a fraction, a waxing state and a latitude
\* are drawn, and both solvers' classification is applied to them
InitPhase ==
    /\ now = Instant(0)
    /\ last = NoCall
    /\ prev = NoCall
    /\ label \in [f : Fractions, isWaxing : BOOLEAN, lat : ObservableLats,
                  basic : {Unclassified}, extended : {Unclassified}]
    /\ ui = NoUi
    /\ loc = NoLoc
    /\ calc = NoCalc

Classify ==
    /\ label.basic = Unclassified
    /\ label' = [label EXCEPT
                   !.basic    = PhaseBasic(label.f, label.isWaxing),
                   !.extended = PhaseExtended(label.f, label.isWaxing, label.lat)]
    /\ UNCHANGED <<now, last, prev, ui, calc, loc>>

NextPhase == Classify

SpecPhase == InitPhase /\ [][NextPhase]_vars

(***************************************************************************)
(* Math.tan and Math.atan2 in whole degrees, and the parallactic angle.    *)
(***************************************************************************)
\* Math.tan of an angle in degrees, times TrigScale
TanDeg(d) == (SinDeg(d) * TrigScale) \div CosDeg(d)

\* Math.atan2(y, x) in degrees, in (-180, 180]
Atan2Deg(y, x) ==
    IF y = 0 THEN (IF x < 0 THEN 180 ELSE 0)
    ELSE LET along(d) == x * CosDeg(d) + Abs(y) * SinDeg(d)
             quadrant == IF x >= 0 THEN 1..90 ELSE 90..179
             angle    == CHOOSE d \in quadrant :
                             \A other \in quadrant : along(d) >= along(other)
         IN  IF y > 0 THEN angle ELSE -angle

\* denominator = tanPhi * cosDec - sinDec * cosH
ParallacticDenominator(H, lat, dec) ==
    (TanDeg(lat) * CosDeg(dec)) \div TrigScale
      - (SinDeg(dec) * CosDeg(H)) \div TrigScale

\* atan2 with its arguments exchanged
ParallacticAngleSwapped(H, lat, dec) ==
    Atan2Deg(ParallacticDenominator(H, lat, dec), SinDeg(H))

\* q = Math.atan2(sinH, denominator)
ParallacticAngle(H, lat, dec) ==
    Atan2Deg(SinDeg(H), ParallacticDenominator(H, lat, dec))

(***************************************************************************)
(* The Moon's place in the sky, for the orientation of the rendered Moon.  *)
(* The provider gives the equatorial coordinates of the Moon and the       *)
(* Greenwich sidereal time; here both are whole degrees (15 degrees to the *)
(* hour), the Moon keeps to a path inclined to the equator, and the        *)
(* sidereal day is taken as 1436 minutes.                                  *)
(***************************************************************************)
\* the sidereal day, 23 h 56 min, in minutes
SiderealDayMin == 1436
\* the greatest declination of the Moon, degrees
DeclinationAmplitude == 28

\* Equator(Body.Moon, time, obs, true, true): ra and dec, in degrees
MoonEquator(t) ==
    LET lambda == NormalizeMod(SunLongitude(t) + Elongation(t), 360)
    IN  [ra  |-> lambda,
         dec |-> (DeclinationAmplitude * SinDeg(lambda)) \div TrigScale]

\* SiderealTime(time), in degrees
SiderealTimeDeg(t) ==
    NormalizeMod(100 + (NormalizeMod(t, SiderealDayMin) * 360) \div SiderealDayMin,
                 360)

\* H = normalizeHours(normalizeHours(gst + i.lon / 15.0) - ra), in degrees
HourAngleOf(gstDeg, lon, raDeg) ==
    NormalizeMod(NormalizeMod(gstDeg + lon, 360) - raDeg, 360)

\* parallacticAngleRad of the basic solver for valid inputs, in degrees
ParallacticBasic(i) ==
    LET moonEquatorial == MoonEquator(i.date.t)
        H == HourAngleOf(SiderealTimeDeg(i.date.t), i.lon, moonEquatorial.ra)
    IN  ParallacticAngle(H, i.lat, moonEquatorial.dec)

(***************************************************************************)
(* App and its scene component.  App keeps datetimeLocal, lat and lon in   *)
(* its store and scrubIncrement in component state; on every change it     *)
(* renders again: inputs and sol are recomputed (sol inside try/catch) and *)
(* the scene component, which receives inputs, recomputes its own          *)
(* memoised sol with no try/catch around it.  An exception thrown while    *)
(* the scene renders has no error boundary above it, so the whole tree is  *)
(* unmounted.  Three scene components exist: components/MoonScene.tsx,     *)
(* which App mounts and which ignores speed; components/moon-scene.tsx,    *)
(* which runs a playback clock (timeRef) when speed is not 0 and whose     *)
(* file carries the extended solver; and the component of part_000, which  *)
(* is that of moon-scene.tsx with the solver of lib/astro.ts.  The         *)
(* rotation of the Moon's group is written as the Euler angles last set on *)
(* it and the rotations about X and Z applied after, all in degrees.       *)
(***************************************************************************)
\* the playback clock advances on at most MaxFrames frames
MaxFrames == 2

\* 86,400,000 ms, in minutes
MinutesPerDay == 1440
\* frame deltas, in sixtieths of a second
FramesPerSecond == 60
Deltas == {1, 60}
\* each scrub increment is 2 hours
ScrubStepMin == 120
\* lightDistance of MoonScene.tsx and of moon-scene.tsx
LightDistanceSimple == 50
LightDistancePlayback == 100

Components == {"MoonScene", "moon-scene", "part_000"}
Speeds == {0, 1}
DatetimeLocals ==
    { [kind |-> "valid", t |-> Instant(n)] : n \in {0, 2, 4} } \cup {InvalidDate}
Scrubs == {-1, 0, 1}
UiLats == {-38, 38, 91}
UiLons == {145, 200}

NoLight == <<>>
Unmounted == [threw |-> FALSE, fallback |-> FALSE, sol |-> NoSolution,
              trace |-> NoTrace]

\* App: date = baseDate with scrubIncrement * 2 hours added
AppDate(datetimeLocal, scrubIncrement) ==
    IF datetimeLocal.kind # "valid" THEN InvalidDate
    ELSE [kind |-> "valid", t |-> datetimeLocal.t + scrubIncrement * ScrubStepMin]

\* App: inputs = { date, lat, lon }
AppInputs(u) ==
    [date |-> AppDate(u.datetimeLocal, u.scrub), lat |-> u.lat, lon |-> u.lon]

\* the solveMoon in scope of each scene component
SceneSolve(comp, i, clock) ==
    IF comp = "moon-scene" THEN solveMoonExtended(i, clock) ELSE solveMoonBasic(i)

lightDistance(comp) ==
    IF comp = "MoonScene" THEN LightDistanceSimple ELSE LightDistancePlayback

\* light.current.position.set(x * lightDistance, y * lightDistance, z * lightDistance)
LightPosition(comp, sunDir) ==
    <<sunDir[1] * lightDistance(comp), sunDir[2] * lightDistance(comp),
      sunDir[3] * lightDistance(comp)>>

\* rotation.set(0, 1.8, 0): 1.8 radians, in degrees
FixedYawDeg == 103

\* the rotation of a new THREE.Group
IdentityRotation == [set |-> <<0, 0, 0>>, rotateX |-> 0, rotateZ |-> 0]

\* the mount effect of the playback components:
\* rotation.set(0, 1.8, 0); rotateX(Math.PI); MoonScene.tsx has no such effect
MountRotation(comp) ==
    IF comp = "MoonScene" THEN IdentityRotation
    ELSE [set |-> <<0, FixedYawDeg, 0>>, rotateX |-> 180, rotateZ |-> 0]

\* MoonScene.tsx, every frame:
\* rotation.set(0, 0, 0); rotateZ(-sol.parallacticAngleRad)
FrameRotation(u) ==
    [IdentityRotation EXCEPT !.rotateZ = -ParallacticBasic(AppInputs(u))]

\* a render that sets the playback clock to the date of the inputs
RenderResync(u, clock) ==
    LET memo == SceneSolve(u.comp, AppInputs(u), clock)
    IN  IF memo.threw
        THEN [u EXCEPT !.readout = Unmounted, !.memo = Unmounted,
                       !.mounted = FALSE, !.escaped = TRUE, !.fresh = FALSE]
        ELSE [u EXCEPT !.readout = AppSolve(AppInputs(u)), !.memo = memo,
                       !.fresh = FALSE, !.timeRef = AppInputs(u).date]

\* a render in which the scene keeps the sol it memoised before
RenderKeepMemo(u, clock) ==
    [u EXCEPT !.readout = AppSolve(AppInputs(u)), !.fresh = FALSE]

\* one render of App and of the scene below it
Render(u, clock) ==
    LET memo == SceneSolve(u.comp, AppInputs(u), clock)
    IN  IF memo.threw
        THEN [u EXCEPT !.readout = Unmounted, !.memo = Unmounted,
                       !.mounted = FALSE, !.escaped = TRUE, !.fresh = FALSE]
        ELSE [u EXCEPT !.readout = AppSolve(AppInputs(u)), !.memo = memo,
                       !.fresh = FALSE]

\* the store as created, the component state as initialised, first render
Mount(comp, speed, clock) ==
    LET u0 == [comp          |-> comp,
               speed         |-> speed,
               datetimeLocal |-> [kind |-> "valid", t |-> clock],
               scrub         |-> 0,
               lat           |-> -38,
               lon           |-> 145,
               readout       |-> Unmounted,
               memo          |-> Unmounted,
               timeRef       |-> [kind |-> "valid", t |-> clock],
               frames        |-> 0,
               light         |-> NoLight,
               rotation      |-> MountRotation(comp),
               fresh         |-> FALSE,
               mounted       |-> TRUE,
               escaped       |-> FALSE]
    IN  Render(u0, clock)

InitUi ==
    /\ now = Instant(0)
    /\ last = NoCall
    /\ prev = NoCall
    /\ label = NoLabel
    /\ loc = NoLoc
    /\ calc = NoCalc
    /\ \E comp \in Components, speed \in Speeds : ui = Mount(comp, speed, now)

\* onChange of the datetime-local field
ChangeDate(d) ==
    /\ ui.mounted
    /\ ui' = Render([ui EXCEPT !.datetimeLocal = d], now)
    /\ UNCHANGED <<now, last, prev, label, calc, loc>>

\* onChange of the latitude field
ChangeLat(lat) ==
    /\ ui.mounted
    /\ ui' = Render([ui EXCEPT !.lat = lat], now)
    /\ UNCHANGED <<now, last, prev, label, calc, loc>>

\* onChange of the longitude field
ChangeLon(lon) ==
    /\ ui.mounted
    /\ ui' = Render([ui EXCEPT !.lon = lon], now)
    /\ UNCHANGED <<now, last, prev, label, calc, loc>>

\* onChange of the time-travel slider
ChangeScrub(n) ==
    /\ ui.mounted
    /\ ui' = Render([ui EXCEPT !.scrub = n], now)
    /\ UNCHANGED <<now, last, prev, label, calc, loc>>

\* timeRef.current += delta * speed * 86_400_000
AdvanceTimeRef(timeRef, delta, speed) ==
    IF timeRef.kind # "valid" THEN timeRef
    ELSE [timeRef EXCEPT
            !.t = @ + (delta * speed * MinutesPerDay) \div FramesPerSecond]

\* useFrame of MoonScene.tsx: the light follows the memoised sol
FrameSimple ==
    /\ ui.mounted
    /\ ui.comp = "MoonScene"
    /\ ui' = [ui EXCEPT !.light = LightPosition(ui.comp, ui.memo.sol.sunDir),
                        !.rotation = FrameRotation(ui),
                        !.fresh = TRUE]
    /\ UNCHANGED <<now, last, prev, label, calc, loc>>

\* useFrame of moon-scene.tsx and of part_000: with speed, solveMoon at the
\* playback clock
FramePlayback(delta) ==
    /\ ui.mounted
    /\ ui.comp # "MoonScene"
    /\ ui.speed # 0 => ui.frames < MaxFrames
    /\ LET timeRef    == IF ui.speed # 0
                         THEN AdvanceTimeRef(ui.timeRef, delta, ui.speed)
                         ELSE ui.timeRef
           currentSol == IF ui.speed # 0
                         THEN SceneSolve(ui.comp,
                                         [AppInputs(ui) EXCEPT !.date = timeRef],
                                         now)
                         ELSE ui.memo
       IN  ui' = IF currentSol.threw
                 THEN [ui EXCEPT !.timeRef = timeRef, !.mounted = FALSE,
                                 !.escaped = TRUE]
                 ELSE [ui EXCEPT
                         !.timeRef = timeRef,
                         !.frames  = IF ui.speed # 0 THEN @ + 1 ELSE @,
                         !.light   = LightPosition(ui.comp, currentSol.sol.sunDir),
                         !.fresh   = TRUE]
    /\ UNCHANGED <<now, last, prev, label, calc, loc>>

NextUi ==
    \/ \E d \in DatetimeLocals : ChangeDate(d)
    \/ \E lat \in UiLats : ChangeLat(lat)
    \/ \E lon \in UiLons : ChangeLon(lon)
    \/ \E n \in Scrubs : ChangeScrub(n)
    \/ FrameSimple
    \/ \E delta \in Deltas : FramePlayback(delta)

SpecUi == InitUi /\ [][NextUi]_vars

(***************************************************************************)
(* getLocationName (lib/astro.ts and moon-scene.tsx carry the same body).  *)
(* Coordinates are in units of 0.00001 degree.  The network's answer is    *)
(* one of: fetch rejects; the body is not JSON; the body is JSON null; the *)
(* body is an object without address; the body has an address, each of     *)
(* whose six fields is a name or is missing (written "").  A string the    *)
(* function returns is modelled by its parts.                              *)
(***************************************************************************)
\* toFixed(4) drops one digit of the model's five
ToFixedDropped == 10

GeoLats == {-3781364, 4071278}
GeoLons == {14496312, -7400597}

AddressFields == {"city", "town", "village", "county", "state", "country"}
FieldValue(f) ==
    CASE f = "city"    -> "Melbourne"
      [] f = "town"    -> "Geelong"
      [] f = "village" -> "Marysville"
      [] f = "county"  -> "Shire of Yarra Ranges"
      [] f = "state"   -> "Victoria"
      [] f = "country" -> "Australia"
Addresses ==
    { [f \in AddressFields |-> IF f \in present THEN FieldValue(f) ELSE ""] :
        present \in SUBSET AddressFields }
NoAddress == [f \in AddressFields |-> ""]
Outcomes ==
    {[kind |-> "fetchRejects", address |-> NoAddress],
     [kind |-> "notJson",      address |-> NoAddress],
     [kind |-> "jsonNull",     address |-> NoAddress],
     [kind |-> "noAddress",    address |-> NoAddress]}
    \cup { [kind |-> "address", address |-> a] : a \in Addresses }

\* a || b on strings
Or(a, b) == IF a # "" THEN a ELSE b

\* x.toFixed(4): the nearest multiple of 0.0001 (no input of the model lies
\* halfway between two)
ToFixed4(x) ==
    IF x >= 0 THEN (x + ToFixedDropped \div 2) \div ToFixedDropped
    ELSE -((-x + ToFixedDropped \div 2) \div ToFixedDropped)

Pending == [settled |-> "pending", kind |-> "", place |-> "", region |-> "",
            lat |-> 0, lon |-> 0, warned |-> FALSE]
\* `${place}, ${region}`, place, region
NameString(place, region, warned) ==
    [settled |-> "resolved",
     kind    |-> IF place # "" /\ region # "" THEN "place, region"
                 ELSE IF place # "" THEN "place" ELSE "region",
     place |-> place, region |-> region, lat |-> 0, lon |-> 0, warned |-> warned]
\* the template `${lat.toFixed(4)} deg, ${lon.toFixed(4)} deg`
CoordString(lat, lon, warned) ==
    [settled |-> "resolved", kind |-> "coordinates", place |-> "", region |-> "",
     lat |-> ToFixed4(lat), lon |-> ToFixed4(lon), warned |-> warned]
Rejected ==
    [settled |-> "rejected", kind |-> "", place |-> "", region |-> "",
     lat |-> 0, lon |-> 0, warned |-> FALSE]

\* the body of the try block; "throw" when an exception leaves it
LocationNameTry(lat, lon, outcome) ==
    IF outcome.kind \in {"fetchRejects", "notJson", "jsonNull"}
    THEN [Rejected EXCEPT !.settled = "throw"]
    ELSE LET a      == outcome.address
             place  == Or(Or(Or(a.city, a.town), a.village), a.county)
             region == Or(a.state, a.country)
         IN  IF outcome.kind = "address" /\ (place # "" \/ region # "")
             THEN NameString(place, region, FALSE)
             ELSE CoordString(lat, lon, FALSE)

\* getLocationName without its catch block
getLocationNameNoCatch(lat, lon, outcome) ==
    LET r == LocationNameTry(lat, lon, outcome)
    IN  IF r.settled = "throw" THEN Rejected ELSE r

getLocationName(lat, lon, outcome) ==
    LET r == LocationNameTry(lat, lon, outcome)
    IN  IF r.settled = "throw" THEN CoordString(lat, lon, TRUE) ELSE r

InitGeo ==
    /\ now = Instant(0)
    /\ last = NoCall
    /\ prev = NoCall
    /\ label = NoLabel
    /\ loc = NoLoc
    /\ ui = NoUi
    /\ calc \in [fn : {"getLocationName"}, lat : GeoLats, lon : GeoLons,
                 outcome : Outcomes, result : {Pending}]

\* the promise settles
SettleLocationName ==
    /\ calc.result = Pending
    /\ calc' = [calc EXCEPT
                  !.result = getLocationName(calc.lat, calc.lon, calc.outcome)]
    /\ UNCHANGED <<now, last, prev, label, ui, loc>>

NextGeo == SettleLocationName

SpecGeo == InitGeo /\ [][NextGeo]_vars

(***************************************************************************)
(* Geolocation in App.  The store holds locationStatus and locationName    *)
(* beside lat and lon.  An effect that depends on locationStatus starts a  *)
(* geolocation request when the status is 'unknown'; the browser later     *)
(* calls the success handler or the error handler of the request, once.    *)
(* The success handler awaits getLocationName before it writes the store,  *)
(* and the fetch inside getLocationName carries no timeout: the network    *)
(* answers (with any of the outcomes above) or stays silent.  The handlers *)
(* write the store whether or not the tree is still mounted.               *)
(***************************************************************************)
\* the button starts at most MaxRequests requests
MaxRequests == 2

\* getLocationName's coordinates are in units of 1 / GeoScale degree
GeoScale == 100000

\* position.coords of the browser, whole degrees
Positions == {[lat |-> 41, lon |-> -74], [lat |-> 38, lon |-> 145]}
\* how the reverse-geocoding request ends
Networks == {"answers", "silent"}
LocOutcomes ==
    {[kind |-> "fetchRejects", address |-> NoAddress],
     [kind |-> "noAddress",    address |-> NoAddress],
     [kind |-> "address",
      address |-> [NoAddress EXCEPT !.city = FieldValue("city"),
                                    !.state = FieldValue("state")]],
     [kind |-> "address",
      address |-> [NoAddress EXCEPT !.country = FieldValue("country")]]}

\* locationName of the store as created: "Melbourne, Victoria"
DefaultLocationName == NameString("Melbourne", "Victoria", FALSE)

\* a render of the tree, when there is one
Rerender(u) == IF u.mounted THEN Render(u, now) ELSE u

Locating(id) == [id |-> id, phase |-> "locating", lat |-> 0, lon |-> 0,
                 net |-> "answers"]

\* the store as created; navigator.geolocation exists or not; the effect of
\* the first render is due
InitLoc ==
    /\ now = Instant(0)
    /\ last = NoCall
    /\ prev = NoCall
    /\ label = NoLabel
    /\ calc = NoCalc
    /\ ui = Mount("MoonScene", 0, now)
    /\ \E hasGeolocation \in BOOLEAN :
         loc = [status         |-> "unknown",
                name           |-> DefaultLocationName,
                hasGeolocation |-> hasGeolocation,
                requests       |-> {},
                started        |-> 0,
                effectDue      |-> TRUE,
                warned         |-> FALSE]

\* the error handler that also resets the name
OnPositionErrorResetName(l, r) ==
    [l EXCEPT !.status = "denied", !.requests = @ \ {r}, !.warned = TRUE,
              !.effectDue = TRUE, !.name = CoordString(0, 0, FALSE)]

\* (error) => { console.warn(...); set({ locationStatus: "denied" }) }
OnPositionError(l, r) ==
    [l EXCEPT !.status = "denied", !.requests = @ \ {r}, !.warned = TRUE,
              !.effectDue = TRUE]

\* the effect that starts a request whatever the status is
LocationEffectUnguarded(l) ==
    IF ~l.hasGeolocation
    THEN [l EXCEPT !.status = "unavailable", !.effectDue = TRUE]
    ELSE [l EXCEPT !.status = "requesting", !.effectDue = TRUE,
                   !.started = @ + 1,
                   !.requests = @ \cup {Locating(l.started + 1)}]

\* the body of useEffect(..., [locationStatus, set])
LocationEffectBody(l) ==
    IF l.status # "unknown" THEN [l EXCEPT !.effectDue = FALSE]
    ELSE IF ~l.hasGeolocation
    THEN [l EXCEPT !.status = "unavailable", !.effectDue = TRUE]
    ELSE [l EXCEPT !.status = "requesting", !.effectDue = TRUE,
                   !.started = @ + 1,
                   !.requests = @ \cup {Locating(l.started + 1)}]

\* the effect runs after the first render and after every render that
\* changed locationStatus
LocationEffect ==
    /\ ui.mounted
    /\ loc.effectDue
    /\ loc' = LocationEffectBody(loc)
    /\ UNCHANGED <<now, last, prev, label, ui, calc>>

\* requestLocation, the onClick of the button, disabled while 'requesting'
RequestLocation ==
    /\ ui.mounted
    /\ loc.status # "requesting"
    /\ loc.started < MaxRequests
    /\ loc' = [loc EXCEPT !.status = "unknown",
                          !.effectDue = @ \/ loc.status # "unknown"]
    /\ UNCHANGED <<now, last, prev, label, ui, calc>>

\* the success handler up to its await: getLocationName(newLat, newLon) is
\* called and the fetch is in flight
PositionSuccess(r, position, net) ==
    /\ r \in loc.requests
    /\ r.phase = "locating"
    /\ loc' = [loc EXCEPT
                 !.requests = (@ \ {r}) \cup
                     {[r EXCEPT !.phase = "geocoding", !.lat = position.lat,
                                !.lon = position.lon, !.net = net]}]
    /\ UNCHANGED <<now, last, prev, label, ui, calc>>

\* the store update of the success handler, lat and lon apart
GrantedSplit(l, r, name) ==
    [l EXCEPT !.status = "requesting", !.name = name, !.requests = @ \ {r},
              !.effectDue = TRUE]

\* set({ lat: newLat, lon: newLon, locationStatus: "granted", locationName: name })
Granted(l, r, name) ==
    [l EXCEPT !.status = "granted", !.name = name, !.requests = @ \ {r},
              !.effectDue = TRUE]

\* the success handler after its await: the promise of getLocationName has
\* resolved (it never rejects) and the store is written
GeocodeSettle(r, outcome) ==
    /\ r \in loc.requests
    /\ r.phase = "geocoding"
    /\ r.net = "answers"
    /\ LET name == getLocationName(r.lat * GeoScale, r.lon * GeoScale, outcome)
       IN  /\ loc' = Granted(loc, r, name)
           /\ ui' = Rerender([ui EXCEPT !.lat = r.lat, !.lon = r.lon])
    /\ UNCHANGED <<now, last, prev, label, calc>>

\* the error handler (permission denied, position unavailable, or the 10 s
\* timeout of the request)
PositionError(r) ==
    /\ r \in loc.requests
    /\ r.phase = "locating"
    /\ loc' = OnPositionError(loc, r)
    /\ UNCHANGED <<now, last, prev, label, ui, calc>>

\* the browser calls one of the two callbacks of a request
GeolocationCallback ==
    \E r \in loc.requests :
        \/ \E position \in Positions, net \in Networks :
               PositionSuccess(r, position, net)
        \/ PositionError(r)

\* the reverse-geocoding request is answered
GeocodeAnswer ==
    \E r \in loc.requests, outcome \in LocOutcomes : GeocodeSettle(r, outcome)

NextLoc ==
    \/ LocationEffect
    \/ RequestLocation
    \/ GeolocationCallback
    \/ GeocodeAnswer
    \/ \E d \in DatetimeLocals : ChangeDate(d)
    \/ \E lat \in UiLats : ChangeLat(lat)
    \/ \E lon \in UiLons : ChangeLon(lon)
    \/ \E n \in Scrubs : ChangeScrub(n)

SpecLoc == InitLoc /\ [][NextLoc]_vars

\* the effect runs after its render, the browser calls one of the callbacks
\* of a request within the timeout, and a network that answers does answer
SpecLocFair ==
    /\ SpecLoc
    /\ WF_vars(LocationEffect)
    /\ WF_vars(GeolocationCallback)
    /\ WF_vars(GeocodeAnswer)

(***************************************************************************)
(* The time-travel slider.  datetimeLocal is a wall-clock reading, which   *)
(* new Date(...) takes in the time zone of the browser; setHours and       *)
(* getHours work on the wall clock of that zone too.  A zone is an offset  *)
(* from UTC that changes once, at the instant "at", from "before" to       *)
(* "after" (both the same in a zone without daylight saving).  Wall-clock  *)
(* readings and instants are in minutes.                                   *)
(***************************************************************************)
\* min and max of the range input
SliderMin == -360
SliderMax == 360
MinutesPerHour == 60

\* UTC; a zone whose clocks go forward an hour; one whose clocks go back
TimeZones ==
    {[before |-> 0,   after |-> 0,   at |-> 0],
     [before |-> 600, after |-> 660, at |-> 0],
     [before |-> 660, after |-> 600, at |-> 0]}
\* wall-clock readings of the datetime-local field
WallClocks == {-10080, 30, 10080}

\* the wall-clock reading of an instant
UtcToLocal(zone, utc) ==
    utc + (IF utc < zone.at THEN zone.before ELSE zone.after)

\* the instant of a wall-clock reading; a reading that occurs twice or
\* never is taken with the offset in force before the change
LocalToUtc(zone, wall) ==
    IF wall - zone.before < zone.at THEN wall - zone.before
    ELSE IF wall - zone.after >= zone.at THEN wall - zone.after
    ELSE wall - zone.before

\* baseDate = new Date(datetimeLocal)
BaseDate(zone, datetimeLocal) == LocalToUtc(zone, datetimeLocal)

\* d = new Date(baseDate); d.setHours(d.getHours() + scrubIncrement * 2)
ScrubbedDate(zone, datetimeLocal, scrubIncrement) ==
    LET totalHours == scrubIncrement * 2
        d          == BaseDate(zone, datetimeLocal)
    IN  LocalToUtc(zone, UtcToLocal(zone, d) + totalHours * MinutesPerHour)

\* the label of the slider: the sign and hours of the first part, and the
\* sign, days and hours of the part in parentheses
ScrubLabel(scrubIncrement) ==
    LET totalScrubHours == scrubIncrement * 2
        scrubDays  == Abs(totalScrubHours) \div 24
        scrubHours == Abs(totalScrubHours) % 24
    IN  [hoursSign  |-> IF totalScrubHours >= 0 THEN "+" ELSE "-",
         totalHours |-> Abs(totalScrubHours),
         daysSign   |-> IF scrubDays > 0 THEN "+"
                        ELSE IF scrubDays < 0 THEN "-" ELSE "",
         scrubDays  |-> scrubDays,
         scrubHours |-> scrubHours]

InitScrub ==
    /\ now = Instant(0)
    /\ last = NoCall
    /\ prev = NoCall
    /\ label = NoLabel
    /\ ui = NoUi
    /\ loc = NoLoc
    /\ calc \in [fn : {"scrub"}, zone : TimeZones, datetimeLocal : WallClocks,
                 scrubIncrement : {0}, rendered : {FALSE}, baseDate : {0},
                 date : {0}, label : {ScrubLabel(0)}]

\* the first render: the slider is at 0
RenderScrub ==
    /\ ~calc.rendered
    /\ calc' = [calc EXCEPT
                  !.rendered = TRUE,
                  !.baseDate = BaseDate(calc.zone, calc.datetimeLocal),
                  !.date = ScrubbedDate(calc.zone, calc.datetimeLocal, 0),
                  !.label = ScrubLabel(0)]
    /\ UNCHANGED <<now, last, prev, label, ui, loc>>

\* onChange of the slider: setScrubIncrement(Number(e.target.value)), and
\* the render that follows
MoveSlider(n) ==
    /\ calc.rendered
    /\ calc.scrubIncrement = 0
    /\ calc' = [calc EXCEPT
                  !.scrubIncrement = n,
                  !.date = ScrubbedDate(calc.zone, calc.datetimeLocal, n),
                  !.label = ScrubLabel(n)]
    /\ UNCHANGED <<now, last, prev, label, ui, loc>>

NextScrub ==
    \/ RenderScrub
    \/ \E n \in SliderMin..SliderMax : MoveSlider(n)

SpecScrub == InitScrub /\ [][NextScrub]_vars

(***************************************************************************)
(* The solver's helper functions, each evaluated on its own.               *)
(*                                                                         *)
(* Hours.  An hour value is a double, written <<m, r>> for m hours plus r  *)
(* units of 2^-52 hour, with r small; a pair is a double when r is a       *)
(* multiple of the spacing of doubles at that magnitude (UlpHours).  The   *)
(* JavaScript % is exact; + rounds to the nearest double, ties to even.    *)
(***************************************************************************)
HoursPerDay == 24

NegativeHours(p) == p[1] < 0 \/ (p[1] = 0 /\ p[2] < 0)
NegHours(p) == <<-p[1], -p[2]>>

RECURSIVE Pow2Floor(_)
\* the largest power of 2 not above w, for w >= 1
Pow2Floor(w) == IF w < 2 THEN 1 ELSE 2 * Pow2Floor(w \div 2)

\* the spacing of doubles around p >= 0, in units of 2^-52 hour
UlpHours(p) ==
    LET whole == IF p[2] < 0 THEN p[1] - 1 ELSE p[1]
    IN  IF whole < 1 THEN 1 ELSE Pow2Floor(whole)

\* r rounded to a multiple of u, ties to the even multiple
RoundToEven(r, u) ==
    LET q   == r \div u
        rem == r - q * u
    IN  IF 2 * rem < u THEN q * u
        ELSE IF 2 * rem > u THEN (q + 1) * u
        ELSE IF q % 2 = 0 THEN q * u ELSE (q + 1) * u

\* the double nearest to m hours + r units
RoundDouble(p) ==
    IF NegativeHours(p)
    THEN LET n == NegHours(p) IN <<-n[1], -RoundToEven(n[2], UlpHours(n))>>
    ELSE <<p[1], RoundToEven(p[2], UlpHours(p))>>

\* a + b on doubles
AddHours(p, q) == RoundDouble(<<p[1] + q[1], p[2] + q[2]>>)

\* p % 24 on doubles: exact, with the sign of p
RemDay(p) ==
    LET pos(x) == IF x[2] >= 0 THEN <<x[1] % HoursPerDay, x[2]>>
                  ELSE <<((x[1] - 1) % HoursPerDay) + 1, x[2]>>
    IN  IF NegativeHours(p) THEN NegHours(pos(NegHours(p))) ELSE pos(p)

\* hours % 24 alone, without the correction for negative results
normalizeHoursNoCorrection(hours) == RemDay(hours)

\* ((hours % 24) + 24) % 24
normalizeHours(hours) == RemDay(AddHours(RemDay(hours), <<HoursPerDay, 0>>))

HourValues ==
    { RoundDouble(<<m, r>>) :
        m \in {-49, -48, -25, -24, -23, -1, 0, 1, 7, 8, 15, 16, 23, 24, 25, 48, 49},
        r \in {-48, -32, -17, -16, -8, -3, -1, 0, 1, 3, 8, 16, 17, 32, 48} }
\* Greenwich sidereal times, in [0, 24)
GstValues == {<<0, 0>>, <<6, 0>>, <<18, 16>>, <<24, -16>>}
\* longitudes (whole multiples of 15 degrees, so that lon / 15 is exact)
HourLons == {-540, -195, -180, 0, 150, 180, 195, 540}
DegreesPerHour == 15
NotEvaluated == <<0, 0, 0>>

InitHours ==
    /\ now = Instant(0)
    /\ last = NoCall
    /\ prev = NoCall
    /\ label = NoLabel
    /\ loc = NoLoc
    /\ ui = NoUi
    /\ \/ calc \in [fn : {"normalizeHours"}, hours : HourValues,
                    gst : {<<0, 0>>}, lon : {0},
                    out : {NotEvaluated}, outNextDay : {NotEvaluated}]
       \/ calc \in [fn : {"lst"}, hours : {<<0, 0>>},
                    gst : GstValues, lon : HourLons,
                    out : {NotEvaluated}, outNextDay : {NotEvaluated}]

\* normalizeHours(hours), and normalizeHours(hours + 24)
EvalNormalizeHours ==
    /\ calc.fn = "normalizeHours"
    /\ calc.out = NotEvaluated
    /\ calc' = [calc EXCEPT
                  !.out = normalizeHours(calc.hours),
                  !.outNextDay =
                      normalizeHours(AddHours(calc.hours, <<HoursPerDay, 0>>))]
    /\ UNCHANGED <<now, last, prev, label, ui, loc>>

\* lst = normalizeHours(gst + i.lon / 15.0)
EvalLst ==
    /\ calc.fn = "lst"
    /\ calc.out = NotEvaluated
    /\ calc' = [calc EXCEPT
                  !.out = normalizeHours(
                              AddHours(calc.gst, <<calc.lon \div DegreesPerHour, 0>>))]
    /\ UNCHANGED <<now, last, prev, label, ui, loc>>

NextHours ==
    \/ EvalNormalizeHours
    \/ EvalLst

SpecHours == InitHours /\ [][NextHours]_vars

(***************************************************************************)
(* Hour angle and parallactic angle.  lst and ra are whole hours, so that  *)
(* H is a whole multiple of 15 degrees; lat and dec are whole degrees.     *)
(* atan2 is given in whole degrees, rounded so that a result on an axis    *)
(* (0, 180) is returned only for an argument on that axis.                 *)
(***************************************************************************)
\* H = normalizeHours(lst - ra) * (Math.PI / 12.0), in degrees
HourAngleDeg(lst, ra) ==
    normalizeHours(AddHours(lst, NegHours(ra)))[1] * DegreesPerHour

SiderealHours == { <<m, 0>> : m \in 0..23 }
RightAscensions == { <<m, 0>> : m \in {0, 5, 18} }
AngleLats == {-38, 0, 38, 60}
Declinations == {-28, -10, 0, 10, 28}
NoAngle == 999

InitAngle ==
    /\ now = Instant(0)
    /\ last = NoCall
    /\ prev = NoCall
    /\ label = NoLabel
    /\ loc = NoLoc
    /\ ui = NoUi
    /\ calc \in [fn : {"parallacticAngle"}, lst : SiderealHours,
                 ra : RightAscensions, lat : AngleLats, dec : Declinations,
                 H : {NoAngle}, q : {NoAngle}]

\* lines "H = ..." to "q = ..." of solveMoon
EvalParallacticAngle ==
    /\ calc.H = NoAngle
    /\ LET H == HourAngleDeg(calc.lst, calc.ra)
       IN  calc' = [calc EXCEPT !.H = H,
                                !.q = ParallacticAngle(H, calc.lat, calc.dec)]
    /\ UNCHANGED <<now, last, prev, label, ui, loc>>

NextAngle == EvalParallacticAngle

SpecAngle == InitAngle /\ [][NextAngle]_vars

(***************************************************************************)
(* Vectors and the two position angles of the extended solver.  A unit     *)
(* vector has length TrigScale.  A number that would be NaN in the program *)
(* is carried as nan = TRUE.                                               *)
(***************************************************************************)
RECURSIVE SqrtIter(_, _)
SqrtIter(n, x) ==
    LET y == (x + n \div x) \div 2
    IN  IF y >= x THEN x ELSE SqrtIter(n, y)
\* the whole part of the square root
Sqrt(n) == IF n = 0 THEN 0 ELSE SqrtIter(n, n)

ZeroVec == <<0, 0, 0>>
\* Math.hypot(a[0], a[1], a[2])
Hypot(a) == Sqrt(a[1] * a[1] + a[2] * a[2] + a[3] * a[3])

\* dot and cross of vectors scaled by TrigScale
dot(a, b) == (a[1] * b[1] + a[2] * b[2] + a[3] * b[3]) \div TrigScale
cross(a, b) ==
    <<(a[2] * b[3] - a[3] * b[2]) \div TrigScale,
      (a[3] * b[1] - a[1] * b[3]) \div TrigScale,
      (a[1] * b[2] - a[2] * b[1]) \div TrigScale>>

\* normalizeVec with m = Math.hypot(...) alone: 0 / 0 is NaN
normalizeVecUnguarded(a) ==
    LET m == Hypot(a)
    IN  IF m = 0 THEN [nan |-> TRUE, v |-> ZeroVec]
        ELSE [nan |-> FALSE,
              v   |-> <<(a[1] * TrigScale) \div m, (a[2] * TrigScale) \div m,
                        (a[3] * TrigScale) \div m>>]

\* normalizeVec (and norm, _norm): m = Math.hypot(...) || 1
normalizeVec(a) ==
    LET h == Hypot(a)
        m == IF h = 0 THEN 1 ELSE h
    IN  [nan |-> FALSE,
         v   |-> IF h = 0 THEN <<a[1] \div m, a[2] \div m, a[3] \div m>>
                 ELSE <<(a[1] * TrigScale) \div m, (a[2] * TrigScale) \div m,
                        (a[3] * TrigScale) \div m>>]

\* equatorialToVector(ra_hours, dec_deg)
equatorialToVector(raHours, decDeg) ==
    LET raDeg == raHours * DegreesPerHour
    IN  <<(CosDeg(decDeg) * CosDeg(raDeg)) \div TrigScale,
          (CosDeg(decDeg) * SinDeg(raDeg)) \div TrigScale,
          SinDeg(decDeg)>>

\* a - dot(a, uM) * uM, normalised: a projected on the plane of the disk
ProjectOnDisk(a, uM) ==
    LET along == dot(a, uM)
    IN  normalizeVec(<<a[1] - (along * uM[1]) \div TrigScale,
                       a[2] - (along * uM[2]) \div TrigScale,
                       a[3] - (along * uM[3]) \div TrigScale>>)

\* Math.atan2(dot(east, w), dot(n, w))
PositionAngle(east, n, w) ==
    IF east.nan \/ n.nan \/ w.nan THEN [nan |-> TRUE, angle |-> 0]
    ELSE [nan |-> FALSE, angle |-> Atan2Deg(dot(east.v, w.v), dot(n.v, w.v))]

\* brightLimbAngleRad and poleAngleRad of the extended solver
LimbAngles(ra, dec, rES, poleRa, poleDec) ==
    LET uM    == equatorialToVector(ra, dec)
        uS    == normalizeVec(rES)
        north == <<0, 0, TrigScale>>
        n     == ProjectOnDisk(north, uM)
        e0    == normalizeVec(cross(uM, n.v))
        east  == [e0 EXCEPT !.nan = @ \/ n.nan]
        v0    == ProjectOnDisk(uS.v, uM)
        v     == [v0 EXCEPT !.nan = @ \/ uS.nan]
        uP    == equatorialToVector(poleRa, poleDec)
        p     == ProjectOnDisk(uP, uM)
    IN  [n |-> n, v |-> v, p |-> p,
         brightLimbAngle |-> PositionAngle(east, n, v),
         poleAngle       |-> PositionAngle(east, n, p)]

VecComponents == {-20000, 0, 15000, 20000}
VecInputs == { <<x, y, z>> : x \in VecComponents, y \in VecComponents, z \in VecComponents }
\* Moon positions (ra in hours, dec in degrees), the celestial pole included
MoonPositions == { <<0, 0>>, <<6, 0>>, <<3, 20>>, <<15, -28>>, <<0, 90>>, <<0, -90>> }
\* Earth -> Sun vectors, one of them along the Moon at ra 0, dec 0
SunVectors == { <<20000, 0, 0>>, <<0, 15000, 0>>, <<-15000, 15000, 0>>, <<0, 20000, -15000>> }
\* directions of the Moon's rotation axis, two of them Moon positions
PolePositions == { <<18, 65>>, <<0, 0>>, <<0, 90>> }
NoVec == [nan |-> FALSE, v |-> <<>>]

InitVec ==
    /\ now = Instant(0)
    /\ last = NoCall
    /\ prev = NoCall
    /\ label = NoLabel
    /\ loc = NoLoc
    /\ ui = NoUi
    /\ \/ calc \in [fn : {"normalizeVec"}, a : VecInputs, moon : {<<0, 0>>},
                    pole : {<<0, 0>>}, out : {NoVec}, angles : {NoVec}]
       \/ calc \in [fn : {"limbAngles"}, a : SunVectors, moon : MoonPositions,
                    pole : PolePositions, out : {NoVec}, angles : {NoVec}]

EvalNormalizeVec ==
    /\ calc.fn = "normalizeVec"
    /\ calc.out = NoVec
    /\ calc' = [calc EXCEPT !.out = normalizeVec(calc.a)]
    /\ UNCHANGED <<now, last, prev, label, ui, loc>>

\* the lines from "const uM" to "const poleAngleRad" of the extended solver
EvalLimbAngles ==
    /\ calc.fn = "limbAngles"
    /\ calc.angles = NoVec
    /\ calc' = [calc EXCEPT
                  !.angles = LimbAngles(calc.moon[1], calc.moon[2], calc.a,
                                        calc.pole[1], calc.pole[2])]
    /\ UNCHANGED <<now, last, prev, label, ui, loc>>

NextVec ==
    \/ EvalNormalizeVec
    \/ EvalLimbAngles

SpecVec == InitVec /\ [][NextVec]_vars


(***************************************************************************)
(* The fields both solvers return, computed by each from the same answers  *)
(* of the provider: illumination, the equatorial coordinates of the Moon   *)
(* (ra in whole hours, dec in whole degrees, dist in units of 0.00001 AU)  *)
(* and the Greenwich sidereal time.  The two files convert degrees to      *)
(* radians differently, deg * (Math.PI / 180) in lib/astro.ts and          *)
(* (deg * Math.PI) / 180.0 in moon-scene.tsx, and the two doubles are not  *)
(* always the same one.  An angle in radians is written <<deg, r>>: the    *)
(* double that lib/astro.ts gets for deg degrees, plus r times the spacing *)
(* of doubles there.  The parallactic angle is written the same way, its   *)
(* degrees being those of ParallacticAngle.                                *)
(***************************************************************************)
\* AU_KM = 149,597,870.7 km: metres in 0.00001 AU
AU_KM == 1495979

\* (deg * Math.PI) / 180.0 minus deg * (Math.PI / 180), in IEEE-754 doubles,
\* in units of the spacing of doubles at that value
RadiansResidue ==
    (-38 :> 1) @@ (-28 :> 0) @@ (-24 :> 1) @@ (0 :> 0) @@ (10 :> 0) @@ (60 :> 0)

RadiansBasic(deg) == <<deg, 0>>
RadiansExtended(deg) == <<deg, RadiansResidue[deg]>>

\* Math.atan2(sinH, tanPhi * cosDec - sinDec * cosH) at the doubles of
\* moon-scene.tsx minus the same at the doubles of lib/astro.ts, for H = 0h
\* to 23h, as <<degrees, spacings of doubles>>; evaluated in IEEE-754
\* doubles for the latitudes and declinations whose conversion differs
ParallacticResidue ==
    (<<-38, -28>> :>
        << <<0, 0>>, <<0, 0>>, <<0, 0>>, <<0, -1>>, <<0, 0>>, <<0, 0>>,
           <<0, 0>>, <<0, 0>>, <<0, 0>>, <<0, 0>>, <<0, 0>>, <<0, 0>>,
           <<0, 0>>, <<0, 0>>, <<0, 0>>, <<0, 0>>, <<0, 0>>, <<0, 0>>,
           <<0, 0>>, <<0, 0>>, <<0, 1>>, <<0, 1>>, <<0, 0>>, <<0, 0>> >>) @@
    (<<-38, -24>> :>
        << <<0, 0>>, <<0, 0>>, <<0, 0>>, <<0, 0>>, <<0, 0>>, <<0, 0>>,
           <<0, 0>>, <<0, 0>>, <<0, 0>>, <<0, 0>>, <<0, 0>>, <<0, 0>>,
           <<0, 0>>, <<0, 0>>, <<0, 0>>, <<0, 0>>, <<0, 0>>, <<0, 0>>,
           <<0, 0>>, <<0, 0>>, <<0, 0>>, <<0, 0>>, <<0, 0>>, <<0, 0>> >>) @@
    (<<-38, 0>> :>
        << <<0, 0>>, <<0, 0>>, <<0, -1>>, <<0, 0>>, <<0, 0>>, <<0, 0>>,
           <<0, 0>>, <<0, 0>>, <<0, 0>>, <<0, -1>>, <<0, 0>>, <<0, 0>>,
           <<0, 0>>, <<0, 0>>, <<0, 0>>, <<0, 0>>, <<0, 0>>, <<0, 1>>,
           <<0, 0>>, <<0, 0>>, <<0, 0>>, <<0, 0>>, <<0, 1>>, <<0, 0>> >>) @@
    (<<-38, 10>> :>
        << <<0, 0>>, <<0, -1>>, <<0, 0>>, <<0, 0>>, <<0, -1>>, <<0, 0>>,
           <<0, 0>>, <<0, 0>>, <<0, -1>>, <<0, 0>>, <<0, 0>>, <<0, 0>>,
           <<0, 0>>, <<0, 0>>, <<0, 0>>, <<0, 0>>, <<0, 0>>, <<0, 0>>,
           <<0, 0>>, <<0, 1>>, <<0, 0>>, <<0, 0>>, <<0, 0>>, <<0, 0>> >>) @@
    (<<-24, -28>> :>
        << <<0, 0>>, <<0, -1>>, <<0, -1>>, <<0, 0>>, <<0, 0>>, <<0, 0>>,
           <<0, -1>>, <<0, 0>>, <<0, -1>>, <<0, 0>>, <<0, 0>>, <<0, 0>>,
           <<0, 0>>, <<0, 0>>, <<0, 0>>, <<0, 0>>, <<0, 0>>, <<0, 0>>,
           <<0, 0>>, <<0, 1>>, <<0, 1>>, <<0, 1>>, <<0, 1>>, <<0, 1>> >>) @@
    (<<-24, -24>> :>
        << <<-180, 0>>, <<0, -1>>, <<0, -1>>, <<0, -1>>, <<0, 0>>, <<0, 0>>,
           <<0, -1>>, <<0, 0>>, <<0, 0>>, <<0, 0>>, <<0, 0>>, <<0, 0>>,
           <<0, 0>>, <<0, 0>>, <<0, 0>>, <<0, 0>>, <<0, 0>>, <<0, 0>>,
           <<0, 1>>, <<0, 0>>, <<0, 0>>, <<0, 1>>, <<0, 1>>, <<0, 1>> >>) @@
    (<<-24, 0>> :>
        << <<0, 0>>, <<0, 0>>, <<0, 0>>, <<0, 0>>, <<0, -1>>, <<0, 0>>,
           <<0, -1>>, <<0, 0>>, <<0, 0>>, <<0, 0>>, <<0, -1>>, <<0, 0>>,
           <<0, 0>>, <<0, 1>>, <<0, 0>>, <<0, 0>>, <<0, 0>>, <<0, 0>>,
           <<0, 1>>, <<0, 1>>, <<0, 0>>, <<0, 1>>, <<0, 0>>, <<0, 0>> >>) @@
    (<<-24, 10>> :>
        << <<0, 0>>, <<0, 0>>, <<0, 0>>, <<0, -1>>, <<0, 0>>, <<0, 0>>,
           <<0, 0>>, <<0, 0>>, <<0, -1>>, <<0, 0>>, <<0, 0>>, <<0, 0>>,
           <<0, 0>>, <<0, 0>>, <<0, 0>>, <<0, 1>>, <<0, 0>>, <<0, 1>>,
           <<0, 0>>, <<0, 0>>, <<0, 0>>, <<0, 0>>, <<0, 0>>, <<0, 0>> >>) @@
    (<<0, -24>> :>
        << <<0, 0>>, <<0, 1>>, <<0, 0>>, <<0, 0>>, <<0, 0>>, <<0, 0>>,
           <<0, 0>>, <<0, 0>>, <<0, 0>>, <<0, 0>>, <<0, 0>>, <<0, 0>>,
           <<0, 0>>, <<0, 0>>, <<0, 0>>, <<0, 0>>, <<0, 0>>, <<0, 0>>,
           <<0, 0>>, <<0, 0>>, <<0, 0>>, <<0, 0>>, <<0, -1>>, <<0, 0>> >>) @@
    (<<60, -24>> :>
        << <<0, 0>>, <<0, 0>>, <<0, 1>>, <<0, 0>>, <<0, 0>>, <<0, 0>>,
           <<0, 0>>, <<0, 0>>, <<0, 0>>, <<0, 0>>, <<0, 0>>, <<0, 0>>,
           <<0, 0>>, <<0, 0>>, <<0, 0>>, <<0, 0>>, <<0, 0>>, <<0, 0>>,
           <<0, 0>>, <<0, 0>>, <<0, 0>>, <<0, 0>>, <<0, 0>>, <<0, 0>> >>)


\* Math.atan2(sinH, denominator) for hour angle H and the doubles phi, decRad
ParallacticDouble(H, phi, decRad) ==
    LET q == ParallacticAngle(H, phi[1], decRad[1])
    IN  IF phi[2] = 0 /\ decRad[2] = 0 THEN <<q, 0>>
        ELSE LET d == ParallacticResidue[<<phi[1], decRad[1]>>]
                          [H \div DegreesPerHour + 1]
             IN  <<q + d[1], d[2]>>

\* lib/astro.ts
SharedBasic(i, eph) ==
    LET illumFraction == IllumOutBasic(eph.illum).illumFraction
        phaseAngleDeg == IllumOutBasic(eph.illum).phaseAngleDeg
        distanceKm == (eph.moonEquatorial.dist * AU_KM) \div 1000
        ra  == eph.moonEquatorial.ra
        dec == eph.moonEquatorial.dec
        lst == normalizeHours(AddHours(eph.gst, <<i.lon \div DegreesPerHour, 0>>))
        H   == HourAngleDeg(lst, ra)
        phi == RadiansBasic(i.lat)
        decRad == RadiansBasic(dec)
    IN  [illumFraction |-> illumFraction,
         phaseAngleDeg |-> phaseAngleDeg,
         distanceKm    |-> distanceKm,
         parallacticAngleRad |-> ParallacticDouble(H, phi, decRad),
         ra  |-> ra,
         dec |-> dec]

\* the extended solver with the local sidereal time taken for Greenwich's
SharedExtendedNoLon(i, eph) ==
    LET dec == eph.moonEquatorial.dec
        H   == HourAngleDeg(normalizeHours(eph.gst), eph.moonEquatorial.ra)
    IN  [illumFraction |-> IllumOutExtended(eph.illum).illumFraction,
         phaseAngleDeg |-> IllumOutExtended(eph.illum).phaseAngleDeg,
         distanceKm    |-> (eph.moonEquatorial.dist * AU_KM) \div 1000,
         parallacticAngleRad |->
             ParallacticDouble(H, RadiansExtended(i.lat), RadiansExtended(dec)),
         ra  |-> eph.moonEquatorial.ra,
         dec |-> dec]

\* moon-scene.tsx
SharedExtended(i, eph) ==
    LET illumFraction == IllumOutExtended(eph.illum).illumFraction
        phaseAngleDeg == IllumOutExtended(eph.illum).phaseAngleDeg
        ra  == eph.moonEquatorial.ra
        dec == eph.moonEquatorial.dec
        distanceKm == (eph.moonEquatorial.dist * AU_KM) \div 1000
        lst == normalizeHours(AddHours(eph.gst, <<i.lon \div DegreesPerHour, 0>>))
        H   == HourAngleDeg(lst, ra)
        phi == RadiansExtended(i.lat)
        decRad == RadiansExtended(dec)
    IN  [illumFraction |-> illumFraction,
         phaseAngleDeg |-> phaseAngleDeg,
         distanceKm    |-> distanceKm,
         parallacticAngleRad |-> ParallacticDouble(H, phi, decRad),
         ra  |-> ra,
         dec |-> dec]

AgreeLats == {-38, -24, 0, 60}
\* whole multiples of 15 degrees, so that lon / 15 is exact
AgreeLons == {-180, 0, 150}
AgreeDeclinations == {-28, -24, 0, 10}
\* dist at perigee and at apogee
AgreeDistances == {238, 271}
AgreeIllums == {Illumination(Instant(1)), Illumination(Instant(4))}
AgreeGsts == { <<m, 0>> : m \in {0, 7, 20} }
Ephemerides ==
    [illum : AgreeIllums,
     moonEquatorial : [ra : RightAscensions, dec : AgreeDeclinations,
                       dist : AgreeDistances],
     gst : AgreeGsts]
NoShared == [none |-> TRUE]

InitAgree ==
    /\ now = Instant(0)
    /\ last = NoCall
    /\ prev = NoCall
    /\ label = NoLabel
    /\ ui = NoUi
    /\ loc = NoLoc
    /\ calc \in [fn : {"shared"}, in : [lat : AgreeLats, lon : AgreeLons],
                 eph : Ephemerides, basic : {NoShared}, extended : {NoShared}]

\* both solvers are called with the same inputs, and the provider gives both
\* the same answers
SolveBoth ==
    /\ calc.basic = NoShared
    /\ calc' = [calc EXCEPT !.basic = SharedBasic(calc.in, calc.eph),
                            !.extended = SharedExtended(calc.in, calc.eph)]
    /\ UNCHANGED <<now, last, prev, label, ui, loc>>

NextAgree == SolveBoth

SpecAgree == InitAgree /\ [][NextAgree]_vars

(***************************************************************************)
(* The claims.                                                             *)
(***************************************************************************)
Called == last # NoCall
CalledSolver == Called /\ last.impl \in {"basic", "extended"}
Returned == Called /\ ~last.res.threw
Classified == label # NoLabel /\ label.basic # Unclassified

\* C1: a call of solveMoon whose date is invalid or missing does not throw, in
\* either solver: the provider is queried for the current instant and a fully
\* populated solution comes back.  (Latitudes outside [-90, 90] are C2's.)
C1_InvalidDateReplacedByNow ==
    (CalledSolver /\ last.in.date.kind # "valid"
         /\ ~ObserverThrows(last.in.lat, last.in.lon, 0))
    => /\ ~last.res.threw
       /\ last.res.trace.time = last.at
       /\ last.res.sol.phaseName \in PhaseNames
       /\ last.res.sol.phaseEmoji \in PhaseEmojis

\* C2: solveMoon never throws for a finite latitude and longitude and a valid
\* date, whatever their range.
C2_NeverThrowsForFiniteLatLon ==
    (CalledSolver /\ last.in.date.kind = "valid") => ~last.res.threw

\* C3: for every fraction in [0,1] and both waxing states the classification of
\* either solver is one of the 8 phase names with one of the 8 emoji, never
\* "Unknown" or "", and below 0.01 it is "New Moon" whatever the waxing state.
C3_PhaseLabelTotal ==
    Classified =>
        /\ label.basic.name \in PhaseNames
        /\ label.basic.emoji \in PhaseEmojis
        /\ label.extended.name \in PhaseNames
        /\ label.extended.emoji \in PhaseEmojis
        /\ (label.f < 10 =>
                label.basic.name = "New Moon" /\ label.extended.name = "New Moon")

C3_Witness ==
    /\ Classified
    /\ label.f = 5
    /\ ~label.isWaxing
    /\ label.extended.name = "New Moon"
    /\ label.basic.name = "New Moon"

\* the partition of C4 in exact arithmetic, on thousandths
RealPartition(f, isWaxing) ==
    IF f < 10 THEN "New Moon"
    ELSE IF f > 990 THEN "Full Moon"
    ELSE IF Abs(f - 500) < 50
         THEN (IF isWaxing THEN "First Quarter" ELSE "Last Quarter")
    ELSE IF f < 500
         THEN (IF isWaxing THEN "Waxing Crescent" ELSE "Waning Crescent")
    ELSE (IF isWaxing THEN "Waxing Gibbous" ELSE "Waning Gibbous")

\* C4 as stated: the classification is the partition new < 0.01, full > 0.99,
\* quarter |f - 0.5| < 0.05, crescent < 0.5, else gibbous, all strict, so that
\* 0.45 is a Crescent and 0.55 a Gibbous.
C4_EqualsRealPartition ==
    Classified =>
        /\ label.basic.name = RealPartition(label.f, label.isWaxing)
        /\ label.extended.name = RealPartition(label.f, label.isWaxing)

\* C4 amended: the classification is that partition with the comparisons made
\* on doubles: 0.01 is a Crescent, 0.99 and 0.55 are Gibbous, but 0.45 is a
\* Quarter, because 0.45 - 0.5 is -0.04999999999999999 as a double, whose
\* magnitude is below the double 0.05; on every other thousandth the two agree.
C4_EqualsPartitionOnDoubles ==
    Classified =>
        LET expected ==
                IF label.f = 450
                THEN (IF label.isWaxing THEN "First Quarter" ELSE "Last Quarter")
                ELSE RealPartition(label.f, label.isWaxing)
        IN  /\ label.basic.name = expected
            /\ label.extended.name = expected

C4_Witness ==
    /\ Classified
    /\ label.f = 450
    /\ label.isWaxing
    /\ label.basic.name = "First Quarter"
    /\ label.extended.name = "First Quarter"

\* C5: for a southern latitude either solver gives the phase name the northern
\* observer gets, the emoji of the northern observer's opposite waxing state
\* for a crescent, quarter or gibbous phase (so not the northern emoji), and
\* the northern emoji for New Moon and Full Moon; latitude 0 is northern.
C5_HemisphereMirroring ==
    Classified =>
        LET f       == label.f
            w       == label.isWaxing
            northB  == PhaseBasic(f, w)
            otherB  == PhaseBasic(f, ~w)
            northE  == PhaseExtended(f, w, Abs(label.lat))
            otherE  == PhaseExtended(f, ~w, Abs(label.lat))
            round   == northE.name \in {"New Moon", "Full Moon"}
        IN  /\ label.lat >= 0 =>
                label.extended = northE /\ label.basic = northB
            /\ label.lat < 0 =>
                /\ label.extended.name = northE.name
                /\ label.basic.name = northB.name
                /\ round => /\ label.extended.emoji = northE.emoji
                            /\ label.basic.emoji = northB.emoji
                /\ ~round => /\ label.extended.emoji = otherE.emoji
                             /\ label.extended.emoji # northE.emoji
                             /\ label.basic.emoji = otherB.emoji
                             /\ label.basic.emoji # northB.emoji

\* C6: every solution that reaches the renderer, the fallback of App.tsx
\* included, has a sunDir of length 1 (to the rounding of the sine table)
\* with y = 0.
C6_SunDirUnit ==
    Returned =>
        LET d == last.res.sol.sunDir
        IN  /\ d[2] = 0
            /\ Abs(d[1] * d[1] + d[3] * d[3] - TrigScale * TrigScale)
                   <= 2 * TrigScale

C6_Witness ==
    /\ Returned
    /\ last.impl = "extended"
    /\ last.res.sol.sunDir[1] < 0
    /\ last.res.sol.sunDir[3] > 0

\* C7: every returned solution has illumFraction in [0,1] and phaseAngleDeg in
\* [0,360); a solver returns the provider's phase_fraction and phase_angle for
\* the instant it queried, unchanged; the fallback is (0.5, 90).
C7_RangesAndPassThrough ==
    Returned =>
        LET s == last.res.sol
        IN  /\ s.illumFraction \in 0..FracScale
            /\ s.phaseAngleDeg \in 0..359
            /\ ~last.res.fallback =>
                   LET illum == Illumination(last.res.trace.time)
                   IN  /\ s.illumFraction = illum.phase_fraction
                       /\ s.phaseAngleDeg = illum.phase_angle
            /\ last.res.fallback =>
                   s.illumFraction * 2 = FracScale /\ s.phaseAngleDeg = 90

C7_Witness ==
    /\ Returned
    /\ last.impl = "basic"
    /\ last.res.sol.phaseAngleDeg < 5
    /\ last.res.sol.illumFraction = FracScale

SameInputsAgain ==
    /\ Called
    /\ prev # NoCall
    /\ prev.impl = last.impl
    /\ prev.in = last.in

SameOutput ==
    /\ prev.res.threw = last.res.threw
    /\ prev.res.sol = last.res.sol

\* C8 as stated: two calls with identical inputs return identical outputs,
\* whatever the wall clock and the random source.
C8_Deterministic == SameInputsAgain => SameOutput

\* C8 amended: two calls with identical inputs whose date is valid return
\* identical outputs, whatever the wall clock and the random source; with an
\* invalid or missing date the extended solver reads the clock and its output
\* follows the wall clock.
C8_DeterministicForValidDate ==
    (SameInputsAgain /\ last.in.date.kind = "valid") => SameOutput

C8_Witness ==
    /\ SameInputsAgain
    /\ last.impl = "extended"
    /\ last.in.date.kind = "valid"
    /\ ~last.res.threw
    /\ prev.at # last.at
    /\ prev.rnd # last.rnd
    /\ prev.logged # last.logged

\* the angle between two directions, in [0,180]
AngularDistance(a, b) ==
    LET d == NormalizeMod(a - b, 360) IN IF d > 180 THEN 360 - d ELSE d

\* C9: the angle theta behind sunDir is 0 when the solution is a New Moon, 180
\* when it is a Full Moon, 90 at First Quarter and 270 at Last Quarter, within
\* 20 degrees, in either solver.
C9_LightMatchesLabel ==
    (CalledSolver /\ ~last.res.threw) =>
        LET theta == last.res.trace.theta
            name  == last.res.sol.phaseName
        IN  /\ name = "New Moon" => AngularDistance(theta, 0) <= 20
            /\ name = "Full Moon" => AngularDistance(theta, 180) <= 20
            /\ name = "First Quarter" => AngularDistance(theta, 90) <= 20
            /\ name = "Last Quarter" => AngularDistance(theta, 270) <= 20

\* C10: a solver takes the Moon as waxing exactly when the elongation of the
\* Moon from the Sun, in [0,360), is at most 180.
C10_WaxingIffElongationAtMost180 ==
    (CalledSolver /\ ~last.res.threw) =>
        (last.res.trace.isWaxing <=> Elongation(last.res.trace.time) <= 180)

(***************************************************************************)
(* C11: solveMoon has no side effects: a call writes nothing to the        *)
(* console, draws nothing from the random source and does not read the     *)
(* clock.                                                                  *)
(***************************************************************************)
C11_NoSideEffects ==
    CalledSolver => /\ ~last.logged
                    /\ ~last.drewRandom
                    /\ ~last.readClock

(***************************************************************************)
(* C12: no solver exception escapes from the UI layer: when solveMoon      *)
(* throws, the readout shows the fallback solution and the scene keeps     *)
(* rendering.                                                              *)
(***************************************************************************)
C12_NoSolverExceptionEscapes ==
    ui # NoUi =>
        /\ ~ui.escaped
        /\ ui.mounted
        /\ solveMoonBasic(AppInputs(ui)).threw =>
               /\ ui.readout.fallback
               /\ ui.readout.sol = FallbackSolution

C13_LocationNameNeverRejects ==
    (calc # NoCalc /\ calc.fn = "getLocationName" /\ calc.result # Pending) =>
        LET a         == calc.outcome.address
            answered  == calc.outcome.kind = "address"
            hasPlace  == answered /\ \E f \in {"city", "town", "village", "county"} : a[f] # ""
            hasRegion == answered /\ \E f \in {"state", "country"} : a[f] # ""
            place     == IF a.city # "" THEN a.city
                         ELSE IF a.town # "" THEN a.town
                         ELSE IF a.village # "" THEN a.village ELSE a.county
            region    == IF a.state # "" THEN a.state ELSE a.country
            r         == calc.result
            RoundsTo(x, n) == 2 * Abs(x - ToFixedDropped * n) < ToFixedDropped
        IN  /\ r.settled = "resolved"
            /\ (hasPlace /\ hasRegion) =>
                   r.kind = "place, region" /\ r.place = place /\ r.region = region
            /\ (hasPlace /\ ~hasRegion) => r.kind = "place" /\ r.place = place
            /\ (~hasPlace /\ hasRegion) => r.kind = "region" /\ r.region = region
            /\ (~hasPlace /\ ~hasRegion) =>
                   /\ r.kind = "coordinates"
                   /\ RoundsTo(calc.lat, r.lat)
                   /\ RoundsTo(calc.lon, r.lon)

\* the request failed and the coordinates came back
C13_Witness ==
    /\ calc # NoCalc
    /\ calc.fn = "getLocationName"
    /\ calc.outcome.kind = "fetchRejects"
    /\ calc.result.settled = "resolved"
    /\ calc.result.kind = "coordinates"
    /\ calc.result.lat = -378136

(***************************************************************************)
(* C14: periodicity.  solveMoon one synodic month after t returns the      *)
(* phaseName it returns at t and an illumFraction within a small tolerance *)
(* (read generously: 0.03) of the one at t; the extended solver returns    *)
(* the same sunDir.                                                        *)
(***************************************************************************)
OneMonthLater ==
    /\ prev # NoCall
    /\ last # NoCall
    /\ prev.impl = last.impl
    /\ prev.in.date.kind = "valid"
    /\ last.in = [prev.in EXCEPT !.date.t = @ + SynodicMonthMin]
    /\ ~prev.res.threw
    /\ ~last.res.threw

HoursEvaluated(fn) ==
    calc # NoCalc /\ calc.fn = fn /\ calc.out # NotEvaluated
InDay(p) == ~NegativeHours(p) /\ LessPair(p, <<HoursPerDay, 0>>)
\* hours + 24 is a double, so that the input a day later is hours + 24 itself
NextDayExact == AddHours(calc.hours, <<HoursPerDay, 0>>)
                  = <<calc.hours[1] + HoursPerDay, calc.hours[2]>>

C16_NormalizeHoursExact ==
    /\ HoursEvaluated("normalizeHours") =>
           /\ InDay(calc.out)
           /\ InDay(calc.hours) => calc.out = calc.hours
           /\ NextDayExact => calc.outNextDay = calc.out
    /\ HoursEvaluated("lst") => InDay(calc.out)

(***************************************************************************)
(* C16, amended: the result lies in [0,24) for every input; on [0,24) it   *)
(* is the input to within 2^-48 hour modulo 24, and exactly the input when *)
(* that is a multiple of 2^-47 hour; a day later it is the same to within  *)
(* 2^-48 hour modulo 24.                                                   *)
(***************************************************************************)
CloseModuloDay(p, q) ==
    /\ p[1] - q[1] \in {0, HoursPerDay, -HoursPerDay}
    /\ Abs(p[2] - q[2]) <= 16

C16_NormalizeHoursUpToRounding ==
    /\ HoursEvaluated("normalizeHours") =>
           /\ InDay(calc.out)
           /\ InDay(calc.hours) => CloseModuloDay(calc.out, calc.hours)
           /\ (InDay(calc.hours) /\ calc.hours[2] % 32 = 0) => calc.out = calc.hours
           /\ NextDayExact => CloseModuloDay(calc.outNextDay, calc.out)
    /\ HoursEvaluated("lst") => InDay(calc.out)

\* the largest double below 24 comes back as 0
C16_Witness ==
    /\ HoursEvaluated("normalizeHours")
    /\ calc.hours = <<HoursPerDay, -16>>
    /\ calc.out = <<0, 0>>

(***************************************************************************)
(* C17: the hour angle H lies in [0, 2 pi) and the parallactic angle q in  *)
(* (-pi, pi]; q >= 0 exactly when H is in [0, pi]; where the denominator   *)
(* is 0, q is +-pi/2 when sin H # 0 (and 0 when sin H = 0).                *)
(***************************************************************************)
AngleEvaluated ==
    calc # NoCalc /\ calc.fn = "parallacticAngle" /\ calc.H # NoAngle

C17_ParallacticAngle ==
    AngleEvaluated =>
        /\ calc.H >= 0 /\ calc.H < 360
        /\ calc.q > -180 /\ calc.q <= 180
        /\ calc.q >= 0 <=> calc.H <= 180
        /\ ParallacticDenominator(calc.H, calc.lat, calc.dec) = 0 =>
             IF SinDeg(calc.H) # 0 THEN calc.q \in {90, -90} ELSE calc.q = 0

\* the Moon due east of an observer on the equator: denominator 0, q = -pi/2
C17_Witness ==
    /\ AngleEvaluated
    /\ calc.lat = 0
    /\ calc.H = 270
    /\ calc.q = -90

(***************************************************************************)
(* C18: normalising the zero vector returns the zero vector, every other   *)
(* vector is returned with length 1; so when the projected north, Sun or   *)
(* pole vector is zero, brightLimbAngleRad and poleAngleRad are not NaN    *)
(* (atan2(0,0) = 0).                                                       *)
(***************************************************************************)
LengthSquared(a) == a[1] * a[1] + a[2] * a[2] + a[3] * a[3]

C18_GuardedNormalisation ==
    /\ (calc # NoCalc /\ calc.fn = "normalizeVec" /\ calc.out # NoVec) =>
           /\ ~calc.out.nan
           /\ calc.a = ZeroVec => calc.out.v = ZeroVec
           /\ calc.a # ZeroVec =>
                Abs(LengthSquared(calc.out.v) - TrigScale * TrigScale)
                    <= 4 * TrigScale
    /\ (calc # NoCalc /\ calc.fn = "limbAngles" /\ calc.angles # NoVec) =>
           /\ ~calc.angles.brightLimbAngle.nan
           /\ ~calc.angles.poleAngle.nan
           /\ calc.angles.n.v = ZeroVec =>
                /\ calc.angles.brightLimbAngle.angle = 0
                /\ calc.angles.poleAngle.angle = 0
           /\ calc.angles.v.v = ZeroVec => calc.angles.brightLimbAngle.angle = 0
           /\ calc.angles.p.v = ZeroVec => calc.angles.poleAngle.angle = 0

\* the Moon at the celestial pole: the projected north is the zero vector
C18_Witness ==
    /\ calc # NoCalc
    /\ calc.fn = "limbAngles"
    /\ calc.angles # NoVec
    /\ calc.angles.n.v = ZeroVec
    /\ ~calc.angles.brightLimbAngle.nan

(***************************************************************************)
(* C19: in the extended solver a failure of the ecliptic-longitude query   *)
(* does not leave the solver: the waxing state then comes from the         *)
(* position in the mean synodic cycle counted from 2000-01-06T18:14Z,      *)
(* waxing exactly when it is at most half a synodic month; when the query  *)
(* succeeds it comes from the longitude of the Moon minus that of the Sun. *)
(***************************************************************************)
C19_EclipticFailureAbsorbed ==
    (Called /\ last.impl = "extended"
       /\ ~ObserverThrows(last.in.lat, last.in.lon, 0)) =>
        LET t      == last.res.trace.time
            failed == EclipticLongitudeThrows("Moon") \/ EclipticLongitudeThrows("Sun")
        IN  /\ ~last.res.threw
            /\ failed =>
                 (last.res.trace.isWaxing
                    <=> 2 * NormalizeMod(t, SynodicMonthMin) <= SynodicMonthMin)
            /\ ~failed =>
                 (last.res.trace.isWaxing
                    <=> NormalizeMod(EclipticLongitude("Moon", t)
                                       - EclipticLongitude("Sun", t), 360) <= 180)

\* the query failed and the cycle position says waning
C19_Witness ==
    /\ Called
    /\ last.impl = "extended"
    /\ ~last.res.threw
    /\ EclipticLongitudeThrows("Sun")
    /\ ~last.res.trace.isWaxing

(***************************************************************************)
(* C20: each of the 8 phase names is returned by the basic solver for some *)
(* output of the provider (a fraction in [0,1], a phase angle in 0..180):  *)
(* in every state in which the basic solver has returned, its waxing test  *)
(* takes both values over those outputs and no name is out of its reach.   *)
(***************************************************************************)
C20_AllPhaseNamesReachable ==
    (Returned /\ last.impl = "basic") =>
        \A name \in PhaseNames :
            \E f \in Fractions, phaseAngleDeg \in 0..180 :
                PhaseBasic(f, IsWaxingBasic(phaseAngleDeg)).name = name

(***************************************************************************)
(* C21: a location request never blocks the UI: while locationStatus is    *)
(* 'requesting' the readout is the solution of the current inputs, and     *)
(* 'requesting' always leads to 'granted' or 'denied', given that the      *)
(* browser calls one of the two callbacks of the request, also when the    *)
(* reverse-geocoding request fails or never answers.                       *)
(***************************************************************************)
C21_RequestNeverBlocks ==
    /\ []((loc.status = "requesting" /\ ui.mounted) =>
              ui.readout = AppSolve(AppInputs(ui)))
    /\ (loc.status = "requesting") ~> (loc.status \in {"granted", "denied"})

(***************************************************************************)
(* C22: the geolocation status machine.  A request is started only when    *)
(* locationStatus is 'unknown', and starting it sets 'requesting'; the     *)
(* status is 'requesting' exactly while a request is outstanding, so at    *)
(* most one is; a click on the button only sets 'unknown' and does nothing *)
(* while 'requesting'; the only transitions are unknown -> requesting or   *)
(* unavailable, requesting -> granted or denied, and granted, denied or    *)
(* unavailable -> unknown.                                                 *)
(***************************************************************************)
StatusTransitions ==
    {<<"unknown", "requesting">>, <<"unknown", "unavailable">>,
     <<"requesting", "granted">>, <<"requesting", "denied">>,
     <<"granted", "unknown">>, <<"denied", "unknown">>,
     <<"unavailable", "unknown">>}

C22_StatusMachine ==
    [][/\ Cardinality(loc'.requests) <= 1
       /\ (loc'.requests # {}) <=> (loc'.status = "requesting")
       /\ loc'.started # loc.started =>
              loc.status = "unknown" /\ loc'.status = "requesting"
       /\ loc'.status # loc.status =>
              <<loc.status, loc'.status>> \in StatusTransitions]_vars

\* a second request is outstanding after the first one was settled
C22_Witness ==
    /\ loc.status = "requesting"
    /\ loc.started = 2
    /\ Cardinality(loc.requests) = 1

(***************************************************************************)
(* C23: when a geolocation request fails (error handler) or geolocation is *)
(* unavailable, only locationStatus changes, to 'denied' or 'unavailable': *)
(* lat, lon, locationName, datetimeLocal and the scrub offset keep their   *)
(* values, and so does the displayed solution.                             *)
(***************************************************************************)
C23_FailureChangesOnlyStatus ==
    [][(loc'.status # loc.status /\ loc'.status \in {"denied", "unavailable"})
       => /\ ui'.lat = ui.lat
          /\ ui'.lon = ui.lon
          /\ ui'.datetimeLocal = ui.datetimeLocal
          /\ ui'.scrub = ui.scrub
          /\ ui'.readout = ui.readout
          /\ loc'.name = loc.name]_vars

\* a request has failed after the user had edited the inputs
C23_Witness ==
    /\ loc.status = "denied"
    /\ ui.mounted
    /\ ui.lat = 38
    /\ ui.scrub = 1
    /\ loc.name = DefaultLocationName

(***************************************************************************)
(* C24: when a geolocation request succeeds, lat, lon, the status          *)
(* 'granted' and locationName are written in one step, whatever lat and    *)
(* lon were edited to while the request was outstanding; no other step     *)
(* changes locationName, so a later edit of lat or lon leaves the name of  *)
(* the last geolocated place.                                              *)
(***************************************************************************)
C24_SuccessWrittenAtOnce ==
    [][/\ \A r \in loc.requests :
              (r.phase = "geocoding" /\ r \notin loc'.requests) =>
                  /\ ui'.lat = r.lat
                  /\ ui'.lon = r.lon
                  /\ loc'.status = "granted"
                  /\ \E outcome \in LocOutcomes :
                         loc'.name = getLocationName(r.lat * GeoScale,
                                                     r.lon * GeoScale, outcome)
       /\ (loc'.status = "granted" /\ loc.status # "granted") =>
              \E r \in loc.requests :
                  r.phase = "geocoding" /\ r \notin loc'.requests
       /\ loc'.name # loc.name =>
              loc.status = "requesting" /\ loc'.status = "granted"]_vars

\* the latitude was edited after a request had succeeded, and the name is
\* still the one of the geolocated place
C24_Witness ==
    /\ loc.status = "granted"
    /\ ui.mounted
    /\ ui.lat = -38
    /\ ui.lon = 200
    /\ loc.name.kind = "region"

(***************************************************************************)
(* C25: the playback clock of the scene component.  It is the date of the  *)
(* inputs at mount until a frame advances it; only a frame with speed # 0  *)
(* changes it, by delta * speed * 86,400,000 ms, and that frame's light    *)
(* comes from solveMoon at the new clock with the current lat and lon; a   *)
(* frame with speed = 0 takes the light from the memoised solution of the  *)
(* current inputs; no change of the inputs sets the clock, and for         *)
(* speed > 0 the clock never goes back.                                    *)
(***************************************************************************)
C25_PlaybackClock ==
    /\ [](ui.frames = 0 => ui.timeRef = [kind |-> "valid", t |-> Instant(0)])
    /\ [][ui.mounted =>
            /\ ui'.timeRef # ui.timeRef =>
                 /\ ui.speed # 0
                 /\ \E delta \in Deltas :
                        ui'.timeRef = AdvanceTimeRef(ui.timeRef, delta, ui.speed)
                 /\ ui'.mounted
                 /\ ui'.light =
                        LightPosition(ui.comp,
                            SceneSolve(ui.comp,
                                       [date |-> ui'.timeRef, lat |-> ui.lat,
                                        lon |-> ui.lon], now).sol.sunDir)
            /\ (ui.speed = 0 /\ ui'.light # ui.light) =>
                 /\ ui.memo = SceneSolve(ui.comp, AppInputs(ui), now)
                 /\ ui'.light = LightPosition(ui.comp, ui.memo.sol.sunDir)
            /\ ui.speed > 0 => ui'.timeRef.t >= ui.timeRef.t]_vars

\* two playback frames have run after the date and the latitude were changed
C25_Witness ==
    /\ ui.mounted
    /\ ui.speed = 1
    /\ ui.frames = 2
    /\ ui.fresh
    /\ ui.datetimeLocal.kind = "valid"
    /\ ui.datetimeLocal.t = Instant(4)
    /\ ui.lat = 38
    /\ ui.timeRef.t > Instant(0)
    /\ ui.timeRef.t < Instant(4)

(***************************************************************************)
(* C26: the rendered Moon keeps a fixed orientation: once the scene has    *)
(* drawn a frame, no change of date, latitude, longitude or scrub offset   *)
(* and no further frame changes the rotation of the Moon's group, in any   *)
(* of the scene components.                                                *)
(***************************************************************************)
C26_FixedOrientation ==
    [][(ui.mounted /\ ui'.mounted /\ ui.light # NoLight) =>
           ui'.rotation = ui.rotation]_vars

(***************************************************************************)
(* C28: for every slider value n in [-360, 360] the date passed to the     *)
(* solver is the base date shifted by exactly 2n hours, n = 0 gives the    *)
(* base date, the displayed offset satisfies 24 * scrubDays + scrubHours = *)
(* |2n| with 0 <= scrubHours < 24, and the signs in the label are that of  *)
(* n.                                                                      *)
(***************************************************************************)
C28_SliderShift ==
    (calc # NoCalc /\ calc.fn = "scrub" /\ calc.rendered) =>
        LET n == calc.scrubIncrement
        IN  /\ calc.date = calc.baseDate + 2 * n * MinutesPerHour
            /\ n = 0 => calc.date = calc.baseDate
            /\ HoursPerDay * calc.label.scrubDays + calc.label.scrubHours
                   = Abs(2 * n)
            /\ calc.label.scrubHours \in 0..(HoursPerDay - 1)
            /\ n < 0 => calc.label.hoursSign = "-" /\ calc.label.daysSign # "+"
            /\ n > 0 => calc.label.hoursSign = "+" /\ calc.label.daysSign # "-"

(***************************************************************************)
(* C27: for the same valid date, lat, lon and the same answers of the      *)
(* provider, the basic and the extended solver return identical            *)
(* illumFraction, phaseAngleDeg, distanceKm, ra, dec and                   *)
(* parallacticAngleRad.                                                    *)
(***************************************************************************)
C27_SharedFieldsIdentical ==
    (calc # NoCalc /\ calc.fn = "shared" /\ calc.basic # NoShared) =>
        calc.basic = calc.extended

(***************************************************************************)
(* C27, amended: illumFraction, phaseAngleDeg, distanceKm, ra and dec are  *)
(* identical; parallacticAngleRad is identical whenever the two ways of    *)
(* converting degrees to radians give the same doubles for the latitude    *)
(* and for the declination.                                                *)
(***************************************************************************)
C27_SharedFieldsUpToRadians ==
    (calc # NoCalc /\ calc.fn = "shared" /\ calc.basic # NoShared) =>
        /\ calc.basic.illumFraction = calc.extended.illumFraction
        /\ calc.basic.phaseAngleDeg = calc.extended.phaseAngleDeg
        /\ calc.basic.distanceKm = calc.extended.distanceKm
        /\ calc.basic.ra = calc.extended.ra
        /\ calc.basic.dec = calc.extended.dec
        /\ (/\ RadiansBasic(calc.in.lat) = RadiansExtended(calc.in.lat)
            /\ RadiansBasic(calc.eph.moonEquatorial.dec)
                   = RadiansExtended(calc.eph.moonEquatorial.dec))
           => calc.basic.parallacticAngleRad = calc.extended.parallacticAngleRad

\* both solvers have answered for an observer away from Greenwich whose
\* latitude and the Moon's declination convert alike
C27_Witness ==
    /\ calc # NoCalc
    /\ calc.fn = "shared"
    /\ calc.basic # NoShared
    /\ calc.in.lat = 60
    /\ calc.in.lon = 150
    /\ calc.eph.moonEquatorial.dec = 10
    /\ calc.basic.distanceKm > 380000
    /\ calc.basic.parallacticAngleRad = calc.extended.parallacticAngleRad
    /\ calc.basic.parallacticAngleRad[1] # 0

====
